---- MODULE Spec2Model ----
(***************************************************************************)
(* Purchase-planning engine (planejamento-compras-app).                    *)
(*                                                                         *)
(* JavaScript numbers are modelled as exact rationals with the common      *)
(* denominator Escala: the integer n stands for the number n / Escala.     *)
(* Every input is an integer or a half-integer and every division in the   *)
(* engine is by a month length of the horizon, so Escala makes all the     *)
(* intermediate values exact.  Emitted fields (after Math.round) are plain *)
(* integers.  JS values of other types are tagged records.                 *)
(* Array indices are 0-based as in the source: Mes(meses, i) is meses[i].  *)
(***************************************************************************)
EXTENDS Integers, Sequences, FiniteSets, TLC

\* ------------------------------------------------------------------------
\* Bounds of the model
\* ------------------------------------------------------------------------
NMeses == 3

\* at most this many months carry a manual override at the same time
MaxEdicoes == 2

\* ------------------------------------------------------------------------
\* Numbers and JS values
\* ------------------------------------------------------------------------
Escala == 2 * 28 * 30 * 31

Num(n) == [t |-> "number", v |-> n]
Inteiro(k) == Num(k * Escala)
NaN == [t |-> "nan", v |-> 0]
Undefined == [t |-> "undefined", v |-> 0]
Null == [t |-> "null", v |-> 0]
Str(k) == [t |-> "string", v |-> k * Escala]

Max(a, b) == IF a >= b THEN a ELSE b
Min(a, b) == IF a <= b THEN a ELSE b

\* Math.round on a scaled number: floor(x + 0.5), halves go up (also for negatives)
MathRound(x) == (2 * x + Escala) \div (2 * Escala)

\* Math.round on the quotient a / b of two integers, b > 0
RoundDiv(a, b) == (2 * a + b) \div (2 * b)

\* Math.ceil(a / b) for integers, b > 0
CeilDiv(a, b) == -((-a) \div b)

RECURSIVE Pot2Mod(_, _)
\* 2^k modulo m
Pot2Mod(k, m) == IF k = 0 THEN 1 % m ELSE (2 * Pot2Mod(k - 1, m)) % m

RECURSIVE Log2(_)
\* floor(log2(x)) for an integer x >= 1
Log2(x) == IF x < 2 THEN 0 ELSE 1 + Log2(x \div 2)

RECURSIVE Deslocamento(_, _)
\* the least s with num * 2^s >= den: num / den lies in [2^-s, 2^(1-s))
Deslocamento(num, den) == IF num >= den THEN 0 ELSE 1 + Deslocamento(2 * num, den)

\* Math.round(a * (num / den)) on IEEE-754 doubles, for integers a, num, den
\* with 0 < num <= den. The quotient is rounded to a 53-bit mantissa first:
\* it is stored as num / den + r / (den * 2^(52 + s)) with
\* r = -t when 2t < den and r = den - t otherwise, t = num * 2^(52 + s) mod den.
\* The error is far smaller than 1 / (2 * den), so it changes the result only
\* when a * num / den is exactly x + 1/2: then the product is rounded to the
\* nearest double, which is x + 1/2 itself unless the error exceeds half the
\* distance to the neighbouring double (2^(E - 52), E = floor(log2(x + 1/2)),
\* halved just below a power of two).
MathRoundProduto(a, num, den) ==
    LET abs == IF a < 0 THEN -a ELSE a
        exato == RoundDiv(a * num, den)
        x == (abs * num) \div den
        s == Deslocamento(num, den)
        t == (num * Pot2Mod(52 + s, den)) % den
        n == s + (IF x > 0 THEN Log2(x) ELSE -1) - 1 - (IF a >= 0 /\ x = 0 THEN 1 ELSE 0)
        erro == IF a >= 0 THEN t ELSE den - t
        passa == abs * erro * 2^Max(0, -n) > den * 2^Max(0, n)
    IN IF (2 * abs * num) % den # 0 \/ ((2 * abs * num) \div den) % 2 = 0 THEN exato
       ELSE IF t = 0 THEN exato
       ELSE IF a >= 0 THEN (IF 2 * t > den THEN exato ELSE IF passa THEN x ELSE x + 1)
       ELSE (IF 2 * t < den THEN exato ELSE IF passa THEN -x - 1 ELSE -x)

\* rec[key] on a JS object: undefined when the key is absent
Lookup(rec, key) == IF key \in DOMAIN rec THEN rec[key] ELSE Undefined

\* ------------------------------------------------------------------------
\* Strings are sequences of one-character strings
\* ------------------------------------------------------------------------
DIGITOS == <<"0", "1", "2", "3", "4", "5", "6", "7", "8", "9">>

IsDigit(c) == \E d \in 1..10 : DIGITOS[d] = c
DigitVal(c) == (CHOOSE d \in 1..10 : DIGITOS[d] = c) - 1

RECURSIVE ToStr(_)
\* String(n) for a non-negative integer
ToStr(n) == IF n < 10 THEN <<DIGITOS[n + 1]>> ELSE ToStr(n \div 10) \o <<DIGITOS[(n % 10) + 1]>>

\* String(n).padStart(2, '0')
PadStart2(s) == IF Len(s) < 2 THEN <<"0">> \o s ELSE s

RECURSIVE Split(_, _)
\* s.split(sep) for a one-character separator
Split(s, sep) ==
    IF \E i \in 1..Len(s) : s[i] = sep
    THEN LET p == CHOOSE i \in 1..Len(s) : s[i] = sep /\ \A j \in 1..(i - 1) : s[j] # sep
         IN <<SubSeq(s, 1, p - 1)>> \o Split(SubSeq(s, p + 1, Len(s)), sep)
    ELSE <<s>>

RECURSIVE DigitsVal(_)
DigitsVal(s) == IF Len(s) = 0 THEN 0 ELSE 10 * DigitsVal(SubSeq(s, 1, Len(s) - 1)) + DigitVal(s[Len(s)])

\* length of the longest prefix of digits
PrefixoDigitos(s) ==
    IF \E i \in 1..Len(s) : ~IsDigit(s[i])
    THEN (CHOOSE i \in 1..Len(s) : ~IsDigit(s[i]) /\ \A j \in 1..(i - 1) : IsDigit(s[j])) - 1
    ELSE Len(s)

\* parseInt(s): the integer of the leading digits, NaN when there is none
ParseInt(s) ==
    IF PrefixoDigitos(s) = 0 THEN NaN
    ELSE [t |-> "number", v |-> DigitsVal(SubSeq(s, 1, PrefixoDigitos(s)))]

\* Number(s): the integer when s is all digits (the empty string is 0), else NaN
NumberJS(s) ==
    IF PrefixoDigitos(s) = Len(s) THEN [t |-> "number", v |-> DigitsVal(s)] ELSE NaN

\* ------------------------------------------------------------------------
\* Calendar utilities (engine/utils/dates.ts)
\* ------------------------------------------------------------------------
Bissexto(ano) == (ano % 4 = 0 /\ ano % 100 # 0) \/ ano % 400 = 0

\* new Date(Date.UTC(ano, mes, 0)).getUTCDate(): the day before the first of
\* the 0-based month `mes`, i.e. the last day of the 1-based month `mes`;
\* a month outside 1..12 rolls over into the neighbouring years
diasNoMes(ano, mes) ==
    LET a == ano + ((mes - 1) \div 12)
        m == ((mes - 1) % 12) + 1
    IN IF m = 2 THEN (IF Bissexto(a) THEN 29 ELSE 28)
       ELSE IF m \in {4, 6, 9, 11} THEN 30 ELSE 31

\* "YYYY_MM".split('_') then parseInt of the first two parts
parseMesAno(mesAno) ==
    LET partes == Split(mesAno, "_")
    IN [ano |-> ParseInt(partes[1]),
        mes |-> IF Len(partes) >= 2 THEN ParseInt(partes[2]) ELSE NaN]

\* `${ano}_${String(mes).padStart(2, '0')}`
ChaveMes(ano, mes) == ToStr(ano) \o <<"_">> \o PadStart2(ToStr(mes))

\* `${ano}-${mm}-${dd}` as built in coverage.ts
ChaveData(ano, mes, dia) ==
    ToStr(ano) \o <<"-">> \o PadStart2(ToStr(mes)) \o <<"-">> \o PadStart2(ToStr(dia))

RECURSIVE UTCData(_, _, _)
\* new Date(Date.UTC(ano, mes - 1, dia)) normalised to a calendar date, dia >= 1
UTCData(ano, mes, dia) ==
    IF mes > 12 THEN UTCData(ano + 1, mes - 12, dia)
    ELSE IF dia > diasNoMes(ano, mes) THEN UTCData(ano, mes + 1, dia - diasNoMes(ano, mes))
    ELSE [ano |-> ano, mes |-> mes, dia |-> dia]

\* d.setUTCDate(d.getUTCDate() + n), n >= 0
SomaDias(d, n) == UTCData(d.ano, d.mes, d.dia + n)

Mes(meses, i) == meses[i + 1]

\* meses.indexOf(chave)
IndexOf(meses, chave) ==
    IF \E i \in 1..Len(meses) : meses[i] = chave
    THEN (CHOOSE i \in 1..Len(meses) : meses[i] = chave /\ \A j \in 1..(i - 1) : meses[j] # chave) - 1
    ELSE -1

\* d1 <= d2 on calendar dates
DataLE(d1, d2) ==
    \/ d1.ano < d2.ano
    \/ d1.ano = d2.ano /\ d1.mes < d2.mes
    \/ d1.ano = d2.ano /\ d1.mes = d2.mes /\ d1.dia <= d2.dia

\* the fixed 7-day blocks S1..S4, and S5 when the month has more than 28 days
Blocos(totalDiasMes) ==
    << [label |-> "S1", inicio |-> 1, fim |-> 7],
       [label |-> "S2", inicio |-> 8, fim |-> 14],
       [label |-> "S3", inicio |-> 15, fim |-> 21],
       [label |-> "S4", inicio |-> 22, fim |-> 28] >>
    \o (IF totalDiasMes > 28 THEN << [label |-> "S5", inicio |-> 29, fim |-> totalDiasMes] >> ELSE << >>)

\* variant: the block that holds diaReferencia keeps its fixed first day
SemanaDeSemCorte(bloco, totalDiasMes, diaReferencia) ==
    [label |-> bloco.label,
     inicio |-> bloco.inicio,
     fim |-> Min(bloco.fim, totalDiasMes),
     dias |-> Min(bloco.fim, totalDiasMes) - bloco.inicio + 1,
     elegivel |-> "undefined",
     mesChegada |-> << >>]

\* one block clipped to [diaReferencia, totalDiasMes]; elegivel and mesChegada
\* are absent (undefined) on a plain SemanaInfo
SemanaDe(bloco, totalDiasMes, diaReferencia) ==
    [label |-> bloco.label,
     inicio |-> Max(bloco.inicio, diaReferencia),
     fim |-> Min(bloco.fim, totalDiasMes),
     dias |-> Min(bloco.fim, totalDiasMes) - Max(bloco.inicio, diaReferencia) + 1,
     elegivel |-> "undefined",
     mesChegada |-> << >>]

RECURSIVE SemanasDe(_, _, _, _)
SemanasDe(k, blocos, totalDiasMes, diaReferencia) ==
    IF k > Len(blocos) THEN << >>
    ELSE (IF blocos[k].fim < diaReferencia
             \/ SemanaDe(blocos[k], totalDiasMes, diaReferencia).dias <= 0
          THEN << >>
          ELSE << SemanaDe(blocos[k], totalDiasMes, diaReferencia) >>)
         \o SemanasDe(k + 1, blocos, totalDiasMes, diaReferencia)

calcularSemanasRestantes(ano, mes, diaReferencia) ==
    SemanasDe(1, Blocos(diasNoMes(ano, mes)), diasNoMes(ano, mes), diaReferencia)

\* the block with its order date, arrival date, eligibility and arrival month
SemanaComLT(sem, ano, mes, ltDias) ==
    LET dataChegada == SomaDias(UTCData(ano, mes, sem.inicio), ltDias)
        fimDoMes == [ano |-> ano, mes |-> mes, dia |-> diasNoMes(ano, mes)]
    IN [sem EXCEPT !.elegivel = IF DataLE(dataChegada, fimDoMes) THEN "true" ELSE "false",
                   !.mesChegada = ChaveMes(dataChegada.ano, dataChegada.mes)]

calcularSemanasComLT(ano, mes, diaReferencia, ltDias) ==
    LET semanasBase == calcularSemanasRestantes(ano, mes, diaReferencia)
    IN [k \in 1..Len(semanasBase) |-> SemanaComLT(semanasBase[k], ano, mes, ltDias)]

RECURSIVE SomaDiasSemanas(_, _)
\* the sum of dias over the blocks whose index is in the set
SomaDiasSemanas(semanas, idx) ==
    IF idx = {} THEN 0
    ELSE LET k == CHOOSE x \in idx : TRUE
         IN semanas[k].dias + SomaDiasSemanas(semanas, idx \ {k})

Elegiveis(semanas) == {k \in 1..Len(semanas) : semanas[k].elegivel # "false"}

RECURSIVE LacoPorSemanas(_, _, _, _, _, _)
\* the loop of distribuirPedidoPorSemanas: ineligible blocks get 0, the last
\* eligible one the remainder, the others their rounded share
LacoPorSemanas(i, acumulado, pedidoMensal, semanas, diasElegiveis, lastElegivelIdx) ==
    IF i >= Len(semanas) THEN << >>
    ELSE IF semanas[i + 1].elegivel = "false"
    THEN << 0 >> \o LacoPorSemanas(i + 1, acumulado, pedidoMensal, semanas, diasElegiveis, lastElegivelIdx)
    ELSE IF i = lastElegivelIdx
    THEN << pedidoMensal - acumulado >>
            \o LacoPorSemanas(i + 1, acumulado, pedidoMensal, semanas, diasElegiveis, lastElegivelIdx)
    ELSE << MathRoundProduto(pedidoMensal, semanas[i + 1].dias, diasElegiveis) >>
            \o LacoPorSemanas(i + 1,
                              acumulado + MathRoundProduto(pedidoMensal, semanas[i + 1].dias, diasElegiveis),
                              pedidoMensal, semanas, diasElegiveis, lastElegivelIdx)

distribuirPedidoPorSemanas(pedidoMensal, semanas) ==
    LET diasElegiveis == SomaDiasSemanas(semanas, Elegiveis(semanas))
        lastElegivelIdx == IF Elegiveis(semanas) = {} THEN -1
                           ELSE (CHOOSE k \in Elegiveis(semanas) : \A x \in Elegiveis(semanas) : x <= k) - 1
    IN IF Len(semanas) = 0 THEN << >>
       ELSE IF diasElegiveis = 0 THEN [k \in 1..Len(semanas) |-> 0]
       ELSE LacoPorSemanas(0, 0, pedidoMensal, semanas, diasElegiveis, lastElegivelIdx)

\* variant: the last block gets its rounded share instead of the remainder
RECURSIVE LacoSimplesSemResto(_, _, _, _, _)
LacoSimplesSemResto(i, acumulado, pedidoMensal, semanas, totalDias) ==
    IF i >= Len(semanas) THEN << >>
    ELSE << MathRoundProduto(pedidoMensal, semanas[i + 1].dias, totalDias) >>
            \o LacoSimplesSemResto(i + 1, acumulado, pedidoMensal, semanas, totalDias)

RECURSIVE LacoSimples(_, _, _, _, _)
\* the loop of distribuirPedidoSimples: the last block gets the remainder
LacoSimples(i, acumulado, pedidoMensal, semanas, totalDias) ==
    IF i >= Len(semanas) THEN << >>
    ELSE IF i = Len(semanas) - 1
    THEN << pedidoMensal - acumulado >>
    ELSE << MathRoundProduto(pedidoMensal, semanas[i + 1].dias, totalDias) >>
            \o LacoSimples(i + 1, acumulado + MathRoundProduto(pedidoMensal, semanas[i + 1].dias, totalDias),
                           pedidoMensal, semanas, totalDias)

distribuirPedidoSimples(pedidoMensal, semanas) ==
    LET totalDias == SomaDiasSemanas(semanas, 1..Len(semanas))
    IN IF Len(semanas) = 0 THEN << >>
       ELSE IF totalDias = 0 THEN [k \in 1..Len(semanas) |-> 0]
       ELSE LacoSimples(0, 0, pedidoMensal, semanas, totalDias)

\* sem.mesChegada || mesAtual
MesAlvo(sem, mesAtual) == IF Len(sem.mesChegada) > 0 THEN sem.mesChegada ELSE mesAtual

\* the indices (1-based) of the blocks grouped under the month key
GrupoDoMes(monthKey, mesAtual, semanas) ==
    {k \in 1..Len(semanas) : MesAlvo(semanas[k], mesAtual) = monthKey}

\* pedidoPorMes[monthKey] || 0
PedidoDoMes(pedidoPorMes, monthKey) ==
    IF Lookup(pedidoPorMes, monthKey).t = "number" THEN pedidoPorMes[monthKey].v ELSE 0

RECURSIVE AcumuladoGrupo(_, _, _, _)
\* the rounded shares of the blocks of the group other than its last one
AcumuladoGrupo(idx, pedido, semanas, totalDias) ==
    IF idx = {} THEN 0
    ELSE LET k == CHOOSE x \in idx : TRUE
         IN MathRoundProduto(pedido, semanas[k].dias, totalDias)
                + AcumuladoGrupo(idx \ {k}, pedido, semanas, totalDias)

\* the value of block k (1-based) in distribuirPedidoMultiMes
ValorMultiMes(k, mesAtual, pedidoPorMes, semanas) ==
    LET monthKey == MesAlvo(semanas[k], mesAtual)
        indices == GrupoDoMes(monthKey, mesAtual, semanas)
        pedido == PedidoDoMes(pedidoPorMes, monthKey)
        totalDias == SomaDiasSemanas(semanas, indices)
        lastIdx == CHOOSE x \in indices : \A y \in indices : y <= x
    IN IF totalDias = 0 THEN 0
       ELSE IF k = lastIdx THEN pedido - AcumuladoGrupo(indices \ {lastIdx}, pedido, semanas, totalDias)
       ELSE MathRoundProduto(pedido, semanas[k].dias, totalDias)

distribuirPedidoMultiMes(mesAtual, pedidoPorMes, semanas) ==
    [k \in 1..Len(semanas) |->
        [valor |-> ValorMultiMes(k, mesAtual, pedidoPorMes, semanas),
         mesOrigem |-> MesAlvo(semanas[k], mesAtual),
         isCurrentMonth |-> MesAlvo(semanas[k], mesAtual) = mesAtual]]

\* ------------------------------------------------------------------------
\* Projection engine (engine/core/projection.ts)
\* ------------------------------------------------------------------------

\* variant: Number(rawSo) || 0, which lets a numeric string through
SellOutNumero(rawSo) == IF rawSo.t \in {"number", "string"} THEN rawSo.v ELSE 0

\* typeof rawSo === 'number' && !isNaN(rawSo) ? rawSo : 0
SellOutSeguro(rawSo) == IF rawSo.t = "number" THEN rawSo.v ELSE 0

\* Order date of the month at index i: the reference date for index 0 when
\* one is given (a non-empty string), else the first day of the month
DataPedido(indiceMesPedido, meses, dataReferencia) ==
    LET mesPedido == parseMesAno(Mes(meses, indiceMesPedido))
        partes == Split(dataReferencia, "-")
    IN IF indiceMesPedido = 0 /\ Len(dataReferencia) > 0
       THEN UTCData(NumberJS(partes[1]).v, NumberJS(partes[2]).v, NumberJS(partes[3]).v)
       ELSE UTCData(mesPedido.ano.v, mesPedido.mes.v, 1)

\* variant: an arrival month outside the horizon always gives the last index
calcularIndiceMesChegadaUltimo(indiceMesPedido, ltDias, meses, dataReferencia) ==
    LET dataChegada == SomaDias(DataPedido(indiceMesPedido, meses, dataReferencia), ltDias)
        indiceChegada == IndexOf(meses, ChaveMes(dataChegada.ano, dataChegada.mes))
    IN IF indiceChegada = -1 THEN Len(meses) - 1 ELSE indiceChegada

calcularIndiceMesChegada(indiceMesPedido, ltDias, meses, dataReferencia) ==
    LET dataChegada == SomaDias(DataPedido(indiceMesPedido, meses, dataReferencia), ltDias)
        mesChegadaKey == ChaveMes(dataChegada.ano, dataChegada.mes)
        indiceChegada == IndexOf(meses, mesChegadaKey)
    IN IF indiceChegada = -1
       THEN Min(indiceMesPedido + CeilDiv(ltDias, 30), Len(meses) - 1)
       ELSE indiceChegada

\* ESTOQUE - IMPACTO - PREECHIMENTO_DEMANDA_LOJA + PENDENCIA + NNA
EstoqueInicial(cadastro) ==
    (cadastro.ESTOQUE - cadastro.IMPACTO - cadastro.PREECHIMENTO_DEMANDA_LOJA
        + cadastro.PENDENCIA + cadastro.NNA) * Escala

\* (so / diasReais) * (lt + frequencia + estSeguranca) + impacto
EstObj(cadastro, mes, sellOutPorMes) ==
    LET so == SellOutSeguro(Lookup(sellOutPorMes, mes))
        p == parseMesAno(mes)
        diasReais == diasNoMes(p.ano.v, p.mes.v)
    IN (so \div diasReais) * (cadastro.LT + cadastro.FREQUENCIA + cadastro.EST_SEGURANCA)
           + cadastro.IMPACTO * Escala

EstObjPorMes(cadastro, meses, sellOutPorMes) ==
    [mes \in {meses[k] : k \in 1..Len(meses)} |-> EstObj(cadastro, mes, sellOutPorMes)]

IndiceChegadaPorMes(cadastro, meses, dataReferencia) ==
    [i \in 0..(Len(meses) - 1) |-> calcularIndiceMesChegada(i, cadastro.LT, meses, dataReferencia)]

\* variant: a truthiness test, which takes an override of 0 for no override
TemPedidoManualTruthy(pedidosManuais, mes) ==
    Lookup(pedidosManuais, mes).t \notin {"null", "undefined"} /\ Lookup(pedidosManuais, mes).v # 0

\* pedidosManuais[mes] !== null && pedidosManuais[mes] !== undefined
TemPedidoManual(pedidosManuais, mes) ==
    Lookup(pedidosManuais, mes).t \notin {"null", "undefined"}

RECURSIVE EstSimuladoSemChegada(_, _, _, _, _, _)
\* variant: the forward loop stops one month short of the arrival month
EstSimuladoSemChegada(j, indiceChegada, est, entradas, meses, sellOutPorMes) ==
    IF j < indiceChegada /\ j < Len(meses)
    THEN EstSimuladoSemChegada(j + 1, indiceChegada,
                     est + entradas[Mes(meses, j)] - SellOutSeguro(Lookup(sellOutPorMes, Mes(meses, j))),
                     entradas, meses, sellOutPorMes)
    ELSE est

RECURSIVE EstSimulado(_, _, _, _, _, _)
\* the forward loop j = i + 1 .. indiceChegada of pass 1
EstSimulado(j, indiceChegada, est, entradas, meses, sellOutPorMes) ==
    IF j <= indiceChegada /\ j < Len(meses)
    THEN EstSimulado(j + 1, indiceChegada,
                     est + entradas[Mes(meses, j)] - SellOutSeguro(Lookup(sellOutPorMes, Mes(meses, j))),
                     entradas, meses, sellOutPorMes)
    ELSE est

\* variant: the need is not floored at zero
NecessidadeSemPiso(i, indiceChegada, estProjAntesPedido, estObjPorMes, entradas, meses, sellOutPorMes) ==
    IF indiceChegada = i
    THEN estObjPorMes[Mes(meses, i)] - estProjAntesPedido
    ELSE estObjPorMes[Mes(meses, indiceChegada)]
            - EstSimulado(i + 1, indiceChegada, estProjAntesPedido, entradas, meses, sellOutPorMes)

\* the order of a month with no manual override
Necessidade(i, indiceChegada, estProjAntesPedido, estObjPorMes, entradas, meses, sellOutPorMes) ==
    IF indiceChegada = i
    THEN Max(0, estObjPorMes[Mes(meses, i)] - estProjAntesPedido)
    ELSE Max(0, estObjPorMes[Mes(meses, indiceChegada)]
                  - EstSimulado(i + 1, indiceChegada, estProjAntesPedido, entradas, meses, sellOutPorMes))

\* variant: the order replaces the arrivals of its arrival month (= for +=)
AgendaEntradaSobrescreve(entradas, mesChegada, pedido) ==
    IF pedido > 0 THEN [entradas EXCEPT ![mesChegada] = pedido] ELSE entradas

\* adds an order to the arrivals of its arrival month, only when it is > 0
AgendaEntrada(entradas, mesChegada, pedido) ==
    IF pedido > 0 THEN [entradas EXCEPT ![mesChegada] = @ + pedido] ELSE entradas

\* the order of the month at index i: the override when there is one, else
\* the need computed from the stock before the order
PedidoFinal(i, st, meses, sellOutPorMes, pedidosManuais, estObjPorMes, indices) ==
    IF TemPedidoManual(pedidosManuais, Mes(meses, i))
    THEN pedidosManuais[Mes(meses, i)].v
    ELSE Necessidade(i, indices[i],
                     st.estAnterior + st.entradas[Mes(meses, i)]
                        - SellOutSeguro(Lookup(sellOutPorMes, Mes(meses, i))),
                     estObjPorMes, st.entradas, meses, sellOutPorMes)

\* the state after the month: its order, the arrivals with that order
\* scheduled, and the stock at the end of the month
FimDoMes(st, mes, sellOut, pedido, entradas) ==
    [pedidosFinais |-> [st.pedidosFinais EXCEPT ![mes] = pedido],
     entradas |-> entradas,
     estProj |-> [st.estProj EXCEPT ![mes] = st.estAnterior + entradas[mes] - sellOut],
     estAnterior |-> st.estAnterior + entradas[mes] - sellOut]

\* one iteration of pass 1 once the order of the month is fixed
PassoComPedido(i, st, meses, sellOutPorMes, indices, pedido) ==
    FimDoMes(st, Mes(meses, i), SellOutSeguro(Lookup(sellOutPorMes, Mes(meses, i))), pedido,
             AgendaEntrada(st.entradas, Mes(meses, indices[i]), pedido))

RECURSIVE Passada1(_, _, _, _, _, _, _)
\* the sequential simulation: st = [pedidosFinais, entradas, estProj, estAnterior]
Passada1(i, st, meses, sellOutPorMes, pedidosManuais, estObjPorMes, indices) ==
    IF i >= Len(meses) THEN st
    ELSE Passada1(i + 1,
                  PassoComPedido(i, st, meses, sellOutPorMes, indices,
                                 PedidoFinal(i, st, meses, sellOutPorMes, pedidosManuais, estObjPorMes, indices)),
                  meses, sellOutPorMes, pedidosManuais, estObjPorMes, indices)

RECURSIVE EntradasFinais(_, _, _, _, _)
\* pass 2: the arrivals re-derived from the final orders
EntradasFinais(i, entradas, pedidosFinais, meses, indices) ==
    IF i >= Len(meses) THEN entradas
    ELSE EntradasFinais(i + 1,
                        AgendaEntrada(entradas, Mes(meses, indices[i]), pedidosFinais[Mes(meses, i)]),
                        pedidosFinais, meses, indices)

RECURSIVE EstFinal(_, _, _, _, _)
\* pass 2: the stock at the end of the month at index i
EstFinal(i, estoqueInicial, entradasFinais, meses, sellOutPorMes) ==
    IF i < 0 THEN estoqueInicial
    ELSE EstFinal(i - 1, estoqueInicial, entradasFinais, meses, sellOutPorMes)
            + entradasFinais[Mes(meses, i)] - SellOutSeguro(Lookup(sellOutPorMes, Mes(meses, i)))

\* the unrounded values of one run, from the results of both passes
MotorFinal(cadastro, meses, sellOutPorMes, estObjPorMes, indices, p1, entradasFinais) ==
    [estObjPorMes |-> estObjPorMes,
     indiceChegadaPorMes |-> indices,
     pedidosFinais |-> p1.pedidosFinais,
     estProj |-> p1.estProj,
     entradasFinais |-> entradasFinais,
     estFinal |-> [m \in {meses[k] : k \in 1..Len(meses)} |->
                     EstFinal(IndexOf(meses, m), EstoqueInicial(cadastro), entradasFinais,
                              meses, sellOutPorMes)]]

\* pass 2 on the orders of pass 1
MotorPassada2(cadastro, meses, sellOutPorMes, estObjPorMes, indices, p1) ==
    MotorFinal(cadastro, meses, sellOutPorMes, estObjPorMes, indices, p1,
               EntradasFinais(0, [m \in {meses[k] : k \in 1..Len(meses)} |-> 0], p1.pedidosFinais, meses, indices))

\* pass 1 on the precomputed objectives and arrival indices
MotorPassada1(cadastro, meses, sellOutPorMes, pedidosManuais, estObjPorMes, indices) ==
    MotorPassada2(cadastro, meses, sellOutPorMes, estObjPorMes, indices,
                  Passada1(0,
                           [pedidosFinais |-> [m \in {meses[k] : k \in 1..Len(meses)} |-> 0],
                            entradas |-> [m \in {meses[k] : k \in 1..Len(meses)} |-> 0],
                            estProj |-> [m \in {meses[k] : k \in 1..Len(meses)} |-> 0],
                            estAnterior |-> EstoqueInicial(cadastro)],
                           meses, sellOutPorMes, pedidosManuais, estObjPorMes, indices))

\* the unrounded values of one run of recalcularProjecaoSKU
Motor(cadastro, meses, sellOutPorMes, pedidosManuais, dataReferencia) ==
    MotorPassada1(cadastro, meses, sellOutPorMes, pedidosManuais,
                  EstObjPorMes(cadastro, meses, sellOutPorMes),
                  IndiceChegadaPorMes(cadastro, meses, dataReferencia))

\* the emitted record of one month: every field through Math.round
MesData(motor, mes, sellOutPorMes) ==
    [SELL_OUT |-> MathRound(SellOutSeguro(Lookup(sellOutPorMes, mes))),
     ESTOQUE_PROJETADO |-> MathRound(motor.estFinal[mes]),
     ESTOQUE_OBJETIVO |-> MathRound(motor.estObjPorMes[mes]),
     PEDIDO |-> MathRound(motor.pedidosFinais[mes]),
     ENTRADA |-> MathRound(motor.entradasFinais[mes])]

\* the emitted series: one record per month key
Emitir(motor, meses, sellOutPorMes) ==
    [mes \in {meses[k] : k \in 1..Len(meses)} |-> MesData(motor, mes, sellOutPorMes)]

recalcularProjecaoSKU(cadastro, meses, sellOutPorMes, pedidosManuais, dataReferencia) ==
    Emitir(Motor(cadastro, meses, sellOutPorMes, pedidosManuais, dataReferencia), meses, sellOutPorMes)

\* variant: the first month is examined too
getStatusSKUComMes0(projecao, meses) ==
    LET vistos == {i \in 0..(Len(meses) - 1) : Mes(meses, i) \in DOMAIN projecao}
        hasCritical == \E i \in vistos : projecao[Mes(meses, i)].ESTOQUE_PROJETADO < 0
        hasWarning == \E i \in vistos :
            /\ ~(projecao[Mes(meses, i)].ESTOQUE_PROJETADO < 0)
            /\ 10 * projecao[Mes(meses, i)].ESTOQUE_PROJETADO < 8 * projecao[Mes(meses, i)].ESTOQUE_OBJETIVO
    IN IF hasCritical THEN "critical" ELSE IF hasWarning THEN "warning" ELSE "ok"

\* 'critical' / 'warning' / 'ok' from the months of index >= 1 that have data
getStatusSKU(projecao, meses) ==
    LET vistos == {i \in 1..(Len(meses) - 1) : Mes(meses, i) \in DOMAIN projecao}
        hasCritical == \E i \in vistos : projecao[Mes(meses, i)].ESTOQUE_PROJETADO < 0
        hasWarning == \E i \in vistos :
            /\ ~(projecao[Mes(meses, i)].ESTOQUE_PROJETADO < 0)
            /\ 10 * projecao[Mes(meses, i)].ESTOQUE_PROJETADO < 8 * projecao[Mes(meses, i)].ESTOQUE_OBJETIVO
    IN IF hasCritical THEN "critical" ELSE IF hasWarning THEN "warning" ELSE "ok"

\* ------------------------------------------------------------------------
\* Coverage calculator (engine/core/coverage.ts)
\* ------------------------------------------------------------------------
RECURSIVE DiasAntesDoMes(_, _)
\* the days of the year before the first day of the month
DiasAntesDoMes(ano, mes) ==
    IF mes <= 1 THEN 0 ELSE DiasAntesDoMes(ano, mes - 1) + diasNoMes(ano, mes - 1)

\* getTime() of a UTC midnight in whole days, counted from 0001-01-01
DiaAbsoluto(d) ==
    365 * (d.ano - 1) + ((d.ano - 1) \div 4) - ((d.ano - 1) \div 100) + ((d.ano - 1) \div 400)
        + DiasAntesDoMes(d.ano, d.mes) + (d.dia - 1)

\* projecaoNormal[mesKey]?.PEDIDO || 0
PedidoNormal(projecaoNormal, mesKey) ==
    IF mesKey \in DOMAIN projecaoNormal THEN projecaoNormal[mesKey].PEDIDO ELSE 0

RECURSIVE ConsumoNoMesAtual(_, _, _)
\* the days of the pull blocks of the current month taken by the coverage days
ConsumoNoMesAtual(k, semanasPull, diasParaConsumir) ==
    IF k > Len(semanasPull) \/ diasParaConsumir <= 0 THEN 0
    ELSE Min(semanasPull[k].dias, diasParaConsumir)
            + ConsumoNoMesAtual(k + 1, semanasPull, diasParaConsumir - Min(semanasPull[k].dias, diasParaConsumir))

RECURSIVE LacoSemanasCobertura(_, _, _, _, _, _)
\* the inner loop over the week blocks of one future month
LacoSemanasCobertura(j, diasRestantes, semanasMes, weekValues, valorAntecipadoNoMes, diasAntecipadosNoMes) ==
    IF j >= Len(semanasMes) \/ diasRestantes <= 0
    THEN [valorAntecipadoNoMes |-> valorAntecipadoNoMes,
          diasAntecipadosNoMes |-> diasAntecipadosNoMes,
          diasRestantes |-> diasRestantes]
    ELSE IF semanasMes[j + 1].dias <= diasRestantes
    THEN LacoSemanasCobertura(j + 1, diasRestantes - semanasMes[j + 1].dias, semanasMes, weekValues,
                              valorAntecipadoNoMes + weekValues[j + 1],
                              diasAntecipadosNoMes + semanasMes[j + 1].dias)
    ELSE LacoSemanasCobertura(j + 1, 0, semanasMes, weekValues,
                              valorAntecipadoNoMes + MathRoundProduto(weekValues[j + 1], diasRestantes, semanasMes[j + 1].dias),
                              diasAntecipadosNoMes + diasRestantes)

\* the detail entry of one future month and the days left after it
DetalheDoMes(mesKey, diasRestantes, projecaoNormal) ==
    LET p == parseMesAno(mesKey)
        diasDoMes == diasNoMes(p.ano.v, p.mes.v)
        pedidoNormalMes == PedidoNormal(projecaoNormal, mesKey)
        semanasMes == calcularSemanasRestantes(p.ano.v, p.mes.v, 1)
        weekValues == distribuirPedidoSimples(pedidoNormalMes, semanasMes)
        laco == LacoSemanasCobertura(0, diasRestantes, semanasMes, weekValues, 0, 0)
    IN [mes |-> mesKey,
        pedidoNormal |-> pedidoNormalMes,
        diasNoMes |-> diasDoMes,
        diasAntecipados |-> laco.diasAntecipadosNoMes,
        proporcaoAntecipada |-> IF laco.diasAntecipadosNoMes >= diasDoMes
                                THEN [num |-> 1, den |-> 1]
                                ELSE [num |-> laco.diasAntecipadosNoMes, den |-> diasDoMes],
        valorAntecipado |-> laco.valorAntecipadoNoMes,
        valorMantido |-> pedidoNormalMes - laco.valorAntecipadoNoMes,
        diasRestantes |-> laco.diasRestantes]

\* variant: the days anticipated in the month are not taken off the days left
DiasRestantesSemDesconto(detalhe) == detalhe.diasRestantes + detalhe.diasAntecipados

\* the days left once the week blocks of the month were walked
DiasRestantesApos(detalhe) == detalhe.diasRestantes

RECURSIVE MesesTocados(_, _, _, _)
\* the detail entries that follow the entry of month i
MesesTocados(i, detalhe, meses, projecaoNormal) ==
    << detalhe >>
        \o (IF i + 1 >= Len(meses) \/ DiasRestantesApos(detalhe) <= 0 THEN << >>
            ELSE MesesTocados(i + 1, DetalheDoMes(Mes(meses, i + 1), DiasRestantesApos(detalhe), projecaoNormal),
                              meses, projecaoNormal))

\* the loop over the months after the first while coverage days remain
LacoMesesCobertura(diasParaAntecipar, meses, projecaoNormal) ==
    IF 1 >= Len(meses) \/ diasParaAntecipar <= 0 THEN << >>
    ELSE MesesTocados(1, DetalheDoMes(Mes(meses, 1), diasParaAntecipar, projecaoNormal), meses, projecaoNormal)

\* variant: the anticipated values are taken off the total
RECURSIVE TotalAntecipadoSubtraindo(_, _)
TotalAntecipadoSubtraindo(detalhes, k) ==
    IF k > Len(detalhes) THEN 0
    ELSE TotalAntecipadoSubtraindo(detalhes, k + 1) - detalhes[k].valorAntecipado

RECURSIVE TotalAntecipado(_, _)
\* totalAntecipado += valorAntecipadoNoMes over the months visited
TotalAntecipado(detalhes, k) ==
    IF k > Len(detalhes) THEN 0
    ELSE detalhes[k].valorAntecipado + TotalAntecipado(detalhes, k + 1)

\* variant: the coverage days take no day of the current month
DiasConsumidosNenhum(ano, mes, coberturaUTC, diasCobertos, diasRestantesMesAtual) == 0

\* the days of the current month the coverage days take
DiasConsumidosNoMesAtual(ano, mes, coberturaUTC, diasCobertos, diasRestantesMesAtual) ==
    IF coberturaUTC.ano = ano /\ coberturaUTC.mes = mes
    THEN (IF coberturaUTC.dia + 1 <= diasNoMes(ano, mes)
          THEN ConsumoNoMesAtual(1, calcularSemanasRestantes(ano, mes, coberturaUTC.dia + 1), diasCobertos)
          ELSE 0)
    ELSE diasRestantesMesAtual

\* the record returned, from the values computed on the way
CoberturaResultado(cadastro, pedidoNormalMes1, diasCobertos, diasRestantesMesAtual, detalhes) ==
    [pedidoCobertura |-> pedidoNormalMes1 + TotalAntecipado(detalhes, 1),
     pedidoNormalMes1 |-> pedidoNormalMes1,
     totalAntecipado |-> TotalAntecipado(detalhes, 1),
     estoqueAtual |-> cadastro.ESTOQUE,
     lt |-> cadastro.LT,
     diasCobertos |-> diasCobertos,
     diasRestantesMesAtual |-> diasRestantesMesAtual,
     detalheMeses |-> [k \in 1..Len(detalhes) |->
         [mes |-> detalhes[k].mes, pedidoNormal |-> detalhes[k].pedidoNormal,
          diasNoMes |-> detalhes[k].diasNoMes, diasAntecipados |-> detalhes[k].diasAntecipados,
          proporcaoAntecipada |-> detalhes[k].proporcaoAntecipada,
          valorAntecipado |-> detalhes[k].valorAntecipado, valorMantido |-> detalhes[k].valorMantido]],
     mesesAjustados |-> [k \in 1..Len(detalhes) |->
         [mes |-> detalhes[k].mes, valorOriginal |-> detalhes[k].pedidoNormal,
          valorAjustado |-> detalhes[k].valorMantido]]]

\* steps 2 and 3 of the calculator, once the unedited projection, the day
\* counts and the current month (ano, mes) are known
CoberturaSobre(cadastro, meses, projecaoNormal, ano, mes, coberturaUTC, diasCobertos, diasRestantesMesAtual) ==
    CoberturaResultado(
        cadastro,
        PedidoNormal(projecaoNormal, Mes(meses, 0)),
        diasCobertos,
        diasRestantesMesAtual,
        LacoMesesCobertura(
            Max(0, diasCobertos
                    - DiasConsumidosNoMesAtual(ano, mes, coberturaUTC, diasCobertos, diasRestantesMesAtual)),
            meses, projecaoNormal))

\* step 1: the unedited projection under the reference date written as text
CoberturaEntre(cadastro, meses, sellOutPorMes, coberturaUTC, refUTC, mesAtual) ==
    CoberturaSobre(cadastro, meses,
                   recalcularProjecaoSKU(cadastro, meses, sellOutPorMes,
                                         [m \in {meses[k] : k \in 1..Len(meses)} |-> Null],
                                         ChaveData(refUTC.ano, refUTC.mes, refUTC.dia)),
                   mesAtual.ano.v, mesAtual.mes.v,
                   coberturaUTC,
                   DiaAbsoluto(coberturaUTC) - DiaAbsoluto(refUTC),
                   diasNoMes(mesAtual.ano.v, mesAtual.mes.v) - refUTC.dia)

calcularCoberturaPorData(cadastro, meses, sellOutPorMes, dataCobertura, dataReferencia) ==
    CoberturaEntre(cadastro, meses, sellOutPorMes,
                   UTCData(dataCobertura.ano, dataCobertura.mes, dataCobertura.dia),
                   UTCData(dataReferencia.ano, dataReferencia.mes, dataReferencia.dia),
                   parseMesAno(Mes(meses, 0)))

\* ------------------------------------------------------------------------
\* Data adapter (obterProjecaoInicial) and hook (useProjectionData)
\* ------------------------------------------------------------------------
\* new Map(lista.map(c => [c.CHAVE, c])): the last entry of a key wins
CadastroMap(lista) ==
    [chave \in {lista[k].CHAVE : k \in 1..Len(lista)} |->
        lista[CHOOSE k \in 1..Len(lista) :
                /\ lista[k].CHAVE = chave
                /\ \A x \in 1..Len(lista) : lista[x].CHAVE = chave => x <= k]]

\* sellOutPorMes[mes] = proj.meses[mes]?.SELL_OUT || 0 on the series of the bundle as fetched
SellOutDoJson(proj, meses) ==
    [mes \in {meses[k] : k \in 1..Len(meses)} |->
        IF mes \in DOMAIN proj.meses /\ proj.meses[mes].SELL_OUT.t = "number"
        THEN proj.meses[mes].SELL_OUT
        ELSE Inteiro(0)]

\* sellOutOriginal[mes] = proj.meses[mes]?.SELL_OUT || 0 on a series the engine emitted
SellOutEmitido(proj, meses) ==
    [mes \in {meses[k] : k \in 1..Len(meses)} |->
        IF mes \in DOMAIN proj.meses THEN Inteiro(proj.meses[mes].SELL_OUT) ELSE Inteiro(0)]

\* `${ano}-${mm}-${dd}` of today, written over metadata.data_referencia
DataDeHoje(hoje) == ChaveData(hoje.ano, hoje.mes, hoje.dia)

\* the series of one SKU recomputed at load time, with no override
ProjecaoRecalculada(proj, data, hoje) ==
    IF proj.CHAVE \notin DOMAIN CadastroMap(data.cadastro) THEN proj
    ELSE [CHAVE |-> proj.CHAVE,
          meses |-> recalcularProjecaoSKU(CadastroMap(data.cadastro)[proj.CHAVE],
                                          data.metadata.meses,
                                          SellOutDoJson(proj, data.metadata.meses),
                                          [mes \in {data.metadata.meses[k] : k \in 1..Len(data.metadata.meses)} |-> Null],
                                          DataDeHoje(hoje))]

obterProjecaoInicial(data, hoje) ==
    [carregado |-> TRUE,
     metadata |-> [meses |-> data.metadata.meses, data_referencia |-> DataDeHoje(hoje)],
     cadastro |-> data.cadastro,
     projecao |-> [k \in 1..Len(data.projecao) |-> ProjecaoRecalculada(data.projecao[k], data, hoje)]]

\* `${chave}|${mes}`
ChaveCelula(chave, mes) == chave \o <<"|">> \o mes

\* edicoesDoSKU: the override of each month of the SKU, null where there is none
EdicoesDoSKU(chave, meses, celulas) ==
    [mes \in {meses[k] : k \in 1..Len(meses)} |->
        IF ChaveCelula(chave, mes) \in DOMAIN celulas THEN celulas[ChaveCelula(chave, mes)] ELSE Null]

\* variant: every SKU is recomputed as soon as the map holds any cell
ProjecaoComEdicoesDeTodos(proj, dadosCarregados, celulas) ==
    IF DOMAIN celulas = {} THEN proj
    ELSE IF proj.CHAVE \notin DOMAIN CadastroMap(dadosCarregados.cadastro) THEN proj
    ELSE [CHAVE |-> proj.CHAVE,
          meses |-> recalcularProjecaoSKU(CadastroMap(dadosCarregados.cadastro)[proj.CHAVE],
                                          dadosCarregados.metadata.meses,
                                          SellOutEmitido(proj, dadosCarregados.metadata.meses),
                                          EdicoesDoSKU(proj.CHAVE, dadosCarregados.metadata.meses, celulas),
                                          dadosCarregados.metadata.data_referencia)]

\* the series of one SKU with its overrides applied
ProjecaoComEdicoes(proj, dadosCarregados, celulas) ==
    LET edicoesDoSKU == EdicoesDoSKU(proj.CHAVE, dadosCarregados.metadata.meses, celulas)
        temEdicao == \E mes \in DOMAIN edicoesDoSKU : edicoesDoSKU[mes] # Null
    IN IF ~temEdicao THEN proj
       ELSE IF proj.CHAVE \notin DOMAIN CadastroMap(dadosCarregados.cadastro) THEN proj
       ELSE [CHAVE |-> proj.CHAVE,
             meses |-> recalcularProjecaoSKU(CadastroMap(dadosCarregados.cadastro)[proj.CHAVE],
                                             dadosCarregados.metadata.meses,
                                             SellOutEmitido(proj, dadosCarregados.metadata.meses),
                                             edicoesDoSKU,
                                             dadosCarregados.metadata.data_referencia)]

\* the memo projecoesComEdicoes
ProjecoesComEdicoes(dadosCarregados, celulas) ==
    IF ~dadosCarregados.carregado THEN << >>
    ELSE [k \in 1..Len(dadosCarregados.projecao) |->
            ProjecaoComEdicoes(dadosCarregados.projecao[k], dadosCarregados, celulas)]

RECURSIVE ComCadastro(_, _)
\* lista.filter(proj => cadastroMap.get(proj.CHAVE)): the entries with a registry entry, in order
ComCadastro(lista, cadastroMap) ==
    IF Len(lista) = 0 THEN << >>
    ELSE (IF Head(lista).CHAVE \in DOMAIN cadastroMap THEN <<Head(lista)>> ELSE << >>)
            \o ComCadastro(Tail(lista), cadastroMap)

\* the memo dadosFiltrados with every filter empty: only the registry test rejects
DadosFiltrados(dadosCarregados, projecoes) ==
    IF ~dadosCarregados.carregado THEN << >>
    ELSE ComCadastro(projecoes, CadastroMap(dadosCarregados.cadastro))

\* one row of the file: the registry attributes, the month and its five figures
LinhaCSV(cad, mes, mesData) ==
    [CHAVE |-> cad.CHAVE, ESTOQUE |-> cad.ESTOQUE, PENDENCIA |-> cad.PENDENCIA, LT |-> cad.LT,
     NNA |-> cad.NNA, FREQUENCIA |-> cad.FREQUENCIA, EST_SEGURANCA |-> cad.EST_SEGURANCA,
     IMPACTO |-> cad.IMPACTO, PREECHIMENTO_DEMANDA_LOJA |-> cad.PREECHIMENTO_DEMANDA_LOJA,
     mes |-> mes, SELL_OUT |-> mesData.SELL_OUT, PEDIDO |-> mesData.PEDIDO, ENTRADA |-> mesData.ENTRADA,
     ESTOQUE_PROJETADO |-> mesData.ESTOQUE_PROJETADO, ESTOQUE_OBJETIVO |-> mesData.ESTOQUE_OBJETIVO]

RECURSIVE LinhasDoSKU(_, _, _)
\* the rows of one SKU: one per month of the horizon that its series has
LinhasDoSKU(cad, proj, meses) ==
    IF Len(meses) = 0 THEN << >>
    ELSE (IF Head(meses) \in DOMAIN proj.meses
          THEN <<LinhaCSV(cad, Head(meses), proj.meses[Head(meses)])>> ELSE << >>)
            \o LinhasDoSKU(cad, proj, Tail(meses))

RECURSIVE LinhasCSV(_, _, _)
\* projecoes.forEach: a SKU with no registry entry writes no row
LinhasCSV(projecoes, cadastroMap, meses) ==
    IF Len(projecoes) = 0 THEN << >>
    ELSE (IF Head(projecoes).CHAVE \in DOMAIN cadastroMap
          THEN LinhasDoSKU(cadastroMap[Head(projecoes).CHAVE], Head(projecoes), meses) ELSE << >>)
            \o LinhasCSV(Tail(projecoes), cadastroMap, meses)

\* an array handed as an optional argument
Lista(l) == [t |-> "array", v |-> l]

\* the rows after the header; projecoesEditadas is Undefined when the caller
\* leaves it out, and every array (the empty one too) is truthy
exportarParaCSV(dadosCarregados, projecoesEditadas) ==
    LinhasCSV(IF projecoesEditadas.t = "undefined" THEN dadosCarregados.projecao ELSE projecoesEditadas.v,
              CadastroMap(dadosCarregados.cadastro),
              dadosCarregados.metadata.meses)

\* ------------------------------------------------------------------------
\* Persisted edits (usePersistedEdits)
\* ------------------------------------------------------------------------
STORAGE_KEY == <<"planejamento_edicoes">>

\* `${now.getFullYear()}-${mm}` of the clock
MesDoRelogio(agora) == ToStr(agora.ano) \o <<"-">> \o PadStart2(ToStr(agora.mes))

\* `${STORAGE_KEY}_${YYYY}-${MM}` for the clock at the time of the call
getKeyWithMonth(agora) == STORAGE_KEY \o <<"_">> \o MesDoRelogio(agora)

\* JSON.stringify(Array.from(map.entries())): the [key, value] pairs of the
\* map; the order of the pairs, which a Map built from them does not depend
\* on, is left out
EntradasJSON(map) == {<<k, map[k]>> : k \in DOMAIN map}

\* new Map(JSON.parse(raw))
MapaDoJSON(raw) == [k \in {e[1] : e \in raw} |-> (CHOOSE e \in raw : e[1] = k)[2]]

\* the Map read from the key of the clock's month; empty when nothing is stored
carregarEdicoes(storage, agora) ==
    IF getKeyWithMonth(agora) \notin DOMAIN storage THEN << >>
    ELSE MapaDoJSON(storage[getKeyWithMonth(agora)])

\* localStorage after setItem under the key of the clock's month
persistirEdicoes(storage, map, agora) ==
    [k \in DOMAIN storage \cup {getKeyWithMonth(agora)} |->
        IF k = getKeyWithMonth(agora) THEN EntradasJSON(map) ELSE storage[k]]

\* ------------------------------------------------------------------------
\* Approval requests (usePedidosAprovacao)
\* ------------------------------------------------------------------------
STORAGE_KEY_PEDIDOS == <<"pedidos_aprovacao">>

\* JSON.stringify(lista): each request as its [field, value] pairs, in list order
PedidosJSON(lista) == [k \in 1..Len(lista) |-> {<<f, lista[k][f]>> : f \in DOMAIN lista[k]}]

\* JSON.parse(raw) as PedidoAprovacao[]
PedidosDoJSON(raw) ==
    [k \in 1..Len(raw) |-> [f \in {e[1] : e \in raw[k]} |-> (CHOOSE e \in raw[k] : e[1] = f)[2]]]

\* the list read from localStorage, empty when nothing is stored
carregarPedidos(storage) ==
    IF STORAGE_KEY_PEDIDOS \notin DOMAIN storage THEN << >>
    ELSE PedidosDoJSON(storage[STORAGE_KEY_PEDIDOS])

\* localStorage after setItem('pedidos_aprovacao', JSON.stringify(lista))
persistir(storage, lista) ==
    [k \in DOMAIN storage \cup {STORAGE_KEY_PEDIDOS} |->
        IF k = STORAGE_KEY_PEDIDOS THEN PedidosJSON(lista) ELSE storage[k]]

RECURSIVE SomaQuantidade(_)
\* itens.reduce((acc, it) => acc + it.totalQuantidade, 0)
SomaQuantidade(itens) ==
    IF Len(itens) = 0 THEN 0 ELSE Head(itens).totalQuantidade + SomaQuantidade(Tail(itens))

\* the request handleEnviarParaAprovacao builds: id and criadoEm from the
\* clock, status 'pendente', the items, their totals, the supplier and the KPIs
PedidoNovo(instante, semanasSelecionadas, itens, fornecedorNome, kpis) ==
    [id |-> ToStr(instante),
     criadoEm |-> instante,
     semanasSelecionadas |-> semanasSelecionadas,
     status |-> "pendente",
     itens |-> itens,
     totalSkus |-> Len(itens),
     totalQuantidade |-> SomaQuantidade(itens),
     fornecedorNome |-> fornecedorNome,
     kpis |-> kpis]

\* prev.map(p => p.id === id ? { ...p, status } : p)
ComStatus(lista, id, novoStatus) ==
    [k \in 1..Len(lista) |-> IF lista[k].id = id THEN [lista[k] EXCEPT !.status = novoStatus] ELSE lista[k]]

RECURSIVE SemPedido(_, _)
\* prev.filter(p => p.id !== id)
SemPedido(lista, id) ==
    IF Len(lista) = 0 THEN << >>
    ELSE (IF Head(lista).id # id THEN <<Head(lista)>> ELSE << >>) \o SemPedido(Tail(lista), id)

\* ------------------------------------------------------------------------
\* The planning page (Home, ProjectionTable, CoveragePanel)
\* ------------------------------------------------------------------------
\* new Date(texto + 'T00:00:00') for a "YYYY-MM-DD" text: local midnight of
\* that calendar date. The session runs at or west of UTC, where the UTC
\* getters used by the coverage calculator see the same calendar date.
DataLocal(texto) ==
    [ano |-> NumberJS(Split(texto, "-")[1]).v,
     mes |-> NumberJS(Split(texto, "-")[2]).v,
     dia |-> NumberJS(Split(texto, "-")[3]).v]

\* the memo semanasInfo: the week blocks left in the first month, none when
\* the reference date is not in that month
semanasInfo(dadosCarregados) ==
    IF ~dadosCarregados.carregado \/ Len(dadosCarregados.metadata.meses) = 0 THEN << >>
    ELSE LET refDate == DataLocal(dadosCarregados.metadata.data_referencia)
             m == parseMesAno(Mes(dadosCarregados.metadata.meses, 0))
         IN IF refDate.ano # m.ano.v \/ refDate.mes # m.mes.v THEN << >>
            ELSE calcularSemanasRestantes(m.ano.v, m.mes.v, refDate.dia)

\* projecaoMeses[mesAtual]?.PEDIDO || 0
PedidoMes1(projecaoMeses, mesAtual) ==
    IF mesAtual \in DOMAIN projecaoMeses THEN projecaoMeses[mesAtual].PEDIDO ELSE 0

\* the week values of a SKU: the typed ones, else those of a coverage, else
\* the proportional distribution of the first month's order
getWeeklyDistribution(chave, projecaoMeses, mesAtual, semanas, manuais, cobertura) ==
    IF Len(semanas) = 0 THEN << >>
    ELSE IF chave \in DOMAIN manuais /\ Len(manuais[chave]) = Len(semanas) THEN manuais[chave]
    ELSE IF chave \in DOMAIN cobertura /\ Len(cobertura[chave]) = Len(semanas) THEN cobertura[chave]
    ELSE distribuirPedidoSimples(PedidoMes1(projecaoMeses, mesAtual), semanas)

RECURSIVE SomaLista(_)
\* valores.reduce((acc, v) => acc + v, 0)
SomaLista(valores) == IF Len(valores) = 0 THEN 0 ELSE Head(valores) + SomaLista(Tail(valores))

\* map.set(chave, valor) on a copy of the map
MapSet(map, chave, valor) ==
    [k \in DOMAIN map \cup {chave} |-> IF k = chave THEN valor ELSE map[k]]

\* map.delete(chave) on a copy of the map
MapDelete(map, chave) == [k \in DOMAIN map \ {chave} |-> map[k]]

\* cadastros.find(c => c.CHAVE === chave), for a key that is in the list
PrimeiroCadastro(lista, chave) ==
    lista[CHOOSE k \in 1..Len(lista) :
            /\ lista[k].CHAVE = chave
            /\ \A x \in 1..(k - 1) : lista[x].CHAVE # chave]

RECURSIVE Resultados(_, _, _)
\* the memo resultados of the panel: the coverage of every row that has a
\* registry entry, on the SELL_OUT of the series shown
Resultados(projecoes, dadosCarregados, dataCobertura) ==
    IF Len(projecoes) = 0 THEN << >>
    ELSE (IF \E k \in 1..Len(dadosCarregados.cadastro) : dadosCarregados.cadastro[k].CHAVE = Head(projecoes).CHAVE
          THEN << [chave |-> Head(projecoes).CHAVE,
                   resultado |-> calcularCoberturaPorData(
                       PrimeiroCadastro(dadosCarregados.cadastro, Head(projecoes).CHAVE),
                       dadosCarregados.metadata.meses,
                       SellOutEmitido(Head(projecoes), dadosCarregados.metadata.meses),
                       DataLocal(dataCobertura),
                       DataLocal(dadosCarregados.metadata.data_referencia))] >>
          ELSE << >>)
         \o Resultados(Tail(projecoes), dadosCarregados, dataCobertura)

\* resultados.filter(r => r.totalAntecipado > 0)
ResultadosComPedido(resultados) == SelectSeq(resultados, LAMBDA r : r.resultado.totalAntecipado > 0)

\* resultados.filter(r => r.totalAntecipado === 0)
ResultadosSemPedido(resultados) == SelectSeq(resultados, LAMBDA r : r.resultado.totalAntecipado = 0)

RECURSIVE PedidosDaCobertura(_, _)
\* the list handed to onAplicarCobertura: per SKU the coverage order on the
\* first month, then the amount kept on each adjusted month
PedidosDaCobertura(comPedido, primeiroMes) ==
    IF Len(comPedido) = 0 THEN << >>
    ELSE << [chave |-> Head(comPedido).chave, mes |-> primeiroMes,
             valor |-> Head(comPedido).resultado.pedidoCobertura] >>
         \o [k \in 1..Len(Head(comPedido).resultado.mesesAjustados) |->
                [chave |-> Head(comPedido).chave,
                 mes |-> Head(comPedido).resultado.mesesAjustados[k].mes,
                 valor |-> Head(comPedido).resultado.mesesAjustados[k].valorAjustado]]
         \o PedidosDaCobertura(Tail(comPedido), primeiroMes)

\* the week values of a coverage: everything in the first week left
TudoNaPrimeiraSemana(pedidoCobertura, semanas) ==
    [k \in 1..Len(semanas) |-> IF k = 1 THEN pedidoCobertura ELSE 0]

RECURSIVE WeeklyOverrides(_, _, _)
\* the map weeklyOverrides, filled in the order of the results: an entry for
\* every result with a positive coverage order
WeeklyOverrides(map, resultados, semanas) ==
    IF Len(resultados) = 0 \/ Len(semanas) = 0 THEN map
    ELSE IF Head(resultados).resultado.pedidoCobertura <= 0
    THEN WeeklyOverrides(map, Tail(resultados), semanas)
    ELSE WeeklyOverrides(MapSet(map, Head(resultados).chave,
                                TudoNaPrimeiraSemana(Head(resultados).resultado.pedidoCobertura, semanas)),
                         Tail(resultados), semanas)

RECURSIVE AplicarPedidos(_, _)
\* pedidos.forEach(p => editarPedido(p.chave, p.mes, p.valor)) on the map of overrides
AplicarPedidos(celulas, listaDePedidos) ==
    IF Len(listaDePedidos) = 0 THEN celulas
    ELSE AplicarPedidos(MapSet(celulas, ChaveCelula(Head(listaDePedidos).chave, Head(listaDePedidos).mes),
                               Inteiro(Head(listaDePedidos).valor)),
                        Tail(listaDePedidos))

\* weeklyOverrides.forEach((vals, chave) => next.set(chave, vals))
MapMerge(map, novos) == [k \in DOMAIN map \cup DOMAIN novos |-> IF k \in DOMAIN novos THEN novos[k] ELSE map[k]]

\* ------------------------------------------------------------------------
\* Inputs of the model
\* ------------------------------------------------------------------------

\* the horizon: NMeses consecutive month keys from 2026_11 on
Horizonte == [k \in 1..NMeses |-> LET d == UTCData(2026, 11 + (k - 1), 1) IN ChaveMes(d.ano, d.mes)]

Chaves(meses) == {meses[k] : k \in 1..Len(meses)}

Cad(estoque, pendencia, lt, nna, frequencia, estSeguranca, impacto, preenchimento) ==
    [ESTOQUE |-> estoque, PENDENCIA |-> pendencia, LT |-> lt, NNA |-> nna,
     FREQUENCIA |-> frequencia, EST_SEGURANCA |-> estSeguranca, IMPACTO |-> impacto,
     PREECHIMENTO_DEMANDA_LOJA |-> preenchimento]

Cadastros ==
    { Cad(20, 0, 0, 0, 30, 0, 0, 0),
      Cad(100, 5, 0, 4, 7, 3, 2, 1),
      Cad(0, 0, 20, 0, 7, 0, 0, 0),
      Cad(10, 2, 45, 0, 15, 0, 3, 0),
      Cad(50, 0, 31, 0, 0, 10, 0, 0) }

Ausente == [t |-> "ausente", v |-> 0]

\* demand per month index; Ausente marks a month with no entry in the record
PerfisDemanda ==
    { [i \in 0..(NMeses - 1) |-> Inteiro(30)],
      [i \in 0..(NMeses - 1) |-> Inteiro(0)],
      [i \in 0..(NMeses - 1) |-> IF i = 0 THEN Inteiro(30) ELSE Inteiro(0)],
      [i \in 0..(NMeses - 1) |-> Inteiro(10 * (i + 1))],
      [i \in 0..(NMeses - 1) |-> Num(21 * (Escala \div 2))],
      [i \in 0..(NMeses - 1) |-> IF i = 1 THEN NaN ELSE Inteiro(30)],
      [i \in 0..(NMeses - 1) |-> IF i = 0 THEN Str(12) ELSE IF i = 2 THEN Ausente ELSE Inteiro(20)] }

\* the record Record<string, number> of a demand profile
SellOutDe(perfil, meses) ==
    [mes \in {m \in Chaves(meses) : perfil[IndexOf(meses, m)] # Ausente} |-> perfil[IndexOf(meses, mes)]]

\* '' stands for an absent reference date; a given one lies in the first month
\* of the horizon, the current month ("Mes 1 (atual)" of the engine's doc)
DatasReferencia == { <<>>, ChaveData(2026, 11, 15), ChaveData(2026, 11, 28) }

\* order quantities a planner types into a cell (parseInt(...) || 0)
ValoresManuais == { Inteiro(0), Inteiro(25), Inteiro(-5) }

\* the largest monthly total handed to a distribution function
MaxPedido == 12

\* a total whose share of 7 days in 10 is the exact half 31.5
PedidosDeEmpate == {45}

PedidosMensais == (0..MaxPedido) \cup PedidosDeEmpate

\* the order of the month after the current one, for distribuirPedidoMultiMes
PedidosProximoMes == {0, 7}

\* the months and reference days the week blocks are computed for
MesesDasSemanas == { [ano |-> 2026, mes |-> 11], [ano |-> 2027, mes |-> 2] }
DiasDeReferencia == {1, 13, 28}
LeadTimesDasSemanas == {0, 5, 20, 40}

\* the last ten days of a 31-day month: S4 with 7 days and S5 with 3
UltimosDias == { [ano |-> 2026, mes |-> 12, diaReferencia |-> 22] }

\* the block lists: plain, with lead time, and the empty list
EntradasSemanas ==
    { [mesAtual |-> ChaveMes(m.ano, m.mes), semanas |-> calcularSemanasRestantes(m.ano, m.mes, d)] :
        m \in MesesDasSemanas, d \in DiasDeReferencia }
    \cup { [mesAtual |-> ChaveMes(m.ano, m.mes), semanas |-> calcularSemanasComLT(m.ano, m.mes, d, lt)] :
        m \in MesesDasSemanas, d \in DiasDeReferencia, lt \in LeadTimesDasSemanas }
    \cup { [mesAtual |-> ChaveMes(u.ano, u.mes), semanas |-> calcularSemanasRestantes(u.ano, u.mes, u.diaReferencia)] :
        u \in UltimosDias }
    \cup { [mesAtual |-> ChaveMes(u.ano, u.mes), semanas |-> calcularSemanasComLT(u.ano, u.mes, u.diaReferencia, 0)] :
        u \in UltimosDias }
    \cup { [mesAtual |-> ChaveMes(2026, 11), semanas |-> << >>] }

\* pedidoPorMes with the current month and the one after it
PedidoPorMesDe(mesAtual, pedidoMensal, pedidoProximo) ==
    LET atual == parseMesAno(mesAtual)
        proximo == UTCData(atual.ano.v, atual.mes.v + 1, 1)
    IN [k \in {mesAtual, ChaveMes(proximo.ano, proximo.mes)} |->
            IF k = mesAtual THEN [t |-> "number", v |-> pedidoMensal]
            ELSE [t |-> "number", v |-> pedidoProximo]]

\* the SKUs of the coverage calls: one more whose second-month order is small
\* enough for the last week block to carry a negative rounding remainder
CadastrosCobertura == Cadastros \cup { Cad(86, 0, 0, 0, 30, 0, 0, 0) }

\* reference dates (today) inside the first month of the horizon
DatasDeReferencia ==
    { [ano |-> 2026, mes |-> 11, dia |-> 1],
      [ano |-> 2026, mes |-> 11, dia |-> 13],
      [ano |-> 2026, mes |-> 11, dia |-> 28] }

\* coverage dates: before the reference, inside the first month, inside each
\* later month of the horizon, and past its end
DatasDeCobertura ==
    { [ano |-> 2026, mes |-> 11, dia |-> 5],
      [ano |-> 2026, mes |-> 11, dia |-> 13],
      [ano |-> 2026, mes |-> 11, dia |-> 23],
      [ano |-> 2026, mes |-> 11, dia |-> 29],
      [ano |-> 2026, mes |-> 11, dia |-> 30],
      [ano |-> 2026, mes |-> 12, dia |-> 10],
      [ano |-> 2026, mes |-> 12, dia |-> 30],
      [ano |-> 2027, mes |-> 1, dia |-> 20],
      [ano |-> 2027, mes |-> 3, dia |-> 15] }

\* the SKU keys of the bundle
ChavesSKU == { <<"A">>, <<"B">> }

\* a registry entry with its key
CadastroDe(chave, cad) == [k \in DOMAIN cad \cup {"CHAVE"} |-> IF k = "CHAVE" THEN chave ELSE cad[k]]

\* the series of a SKU as served: only SELL_OUT is read from it
ProjecaoDoJson(chave, perfil) ==
    [CHAVE |-> chave,
     meses |-> [mes \in DOMAIN SellOutDe(perfil, Horizonte) |->
                    [SELL_OUT |-> SellOutDe(perfil, Horizonte)[mes],
                     ESTOQUE_PROJETADO |-> 0, ESTOQUE_OBJETIVO |-> 0, PEDIDO |-> 0, ENTRADA |-> 0]]]

\* the demand series served for SKU A: whole numbers, fractions, rising
PerfisDoJson ==
    { [i \in 0..(NMeses - 1) |-> Inteiro(30)],
      [i \in 0..(NMeses - 1) |-> Num(21 * (Escala \div 2))],
      [i \in 0..(NMeses - 1) |-> Inteiro(10 * (i + 1))] }

CadastrosDoJson == { Cad(20, 0, 0, 0, 30, 0, 0, 0), Cad(10, 2, 45, 0, 15, 0, 3, 0) }

\* the bundles served: SKU A varies, SKU B is always the same
SampleDatas ==
    { [metadata |-> [meses |-> Horizonte],
       cadastro |-> << CadastroDe(<<"A">>, cad), CadastroDe(<<"B">>, Cad(100, 5, 0, 4, 7, 3, 2, 1)) >>,
       projecao |-> << ProjecaoDoJson(<<"A">>, perfil),
                       ProjecaoDoJson(<<"B">>, [i \in 0..(NMeses - 1) |-> Inteiro(20)]) >>] :
        cad \in CadastrosDoJson, perfil \in PerfisDoJson }

\* the bundles of the export sessions: every SKU registered, and SKU B with a
\* series but no registry entry
SampleDatasExport ==
    { [metadata |-> [meses |-> Horizonte],
       cadastro |-> << CadastroDe(<<"A">>, Cad(20, 0, 0, 0, 30, 0, 0, 0)),
                       CadastroDe(<<"B">>, Cad(100, 5, 0, 4, 7, 3, 2, 1)) >>,
       projecao |-> << ProjecaoDoJson(<<"A">>, [i \in 0..(NMeses - 1) |-> Inteiro(30)]),
                       ProjecaoDoJson(<<"B">>, [i \in 0..(NMeses - 1) |-> Inteiro(20)]) >>],
      [metadata |-> [meses |-> Horizonte],
       cadastro |-> << CadastroDe(<<"A">>, Cad(20, 0, 0, 0, 30, 0, 0, 0)) >>,
       projecao |-> << ProjecaoDoJson(<<"A">>, [i \in 0..(NMeses - 1) |-> Inteiro(30)]),
                       ProjecaoDoJson(<<"B">>, [i \in 0..(NMeses - 1) |-> Inteiro(20)]) >>] }

\* the cells edited in the sessions that persist their edits
CelulasPersistidas ==
    { [chave |-> <<"A">>, mes |-> ChaveMes(2026, 11)], [chave |-> <<"B">>, mes |-> ChaveMes(2026, 12)] }

\* the edits typed in those sessions
EdicoesPersistidas ==
    { [chave |-> <<"A">>, mes |-> ChaveMes(2026, 11), valor |-> Inteiro(25)],
      [chave |-> <<"A">>, mes |-> ChaveMes(2026, 11), valor |-> Inteiro(0)],
      [chave |-> <<"B">>, mes |-> ChaveMes(2026, 12), valor |-> Inteiro(25)] }

\* the months the clock of those sessions goes through
MesesDoRelogio == { ChaveMes(2026, 11), ChaveMes(2026, 12), ChaveMes(2027, 1) }

\* the longest list of approval requests
MaxPedidosAprovacao == 3

\* readings of the clock when a request is sent
Instantes == {1, 2}

\* the requests sent: SKU A for the week S2, alone or with SKU B
NovosPedidos ==
    { PedidoNovo(instante, << <<"S", "2">> >>, itens, <<"F">>, [skusOk |-> Len(itens)]) :
        instante \in Instantes,
        itens \in { << [chave |-> <<"A">>, totalQuantidade |-> 10] >>,
                    << [chave |-> <<"A">>, totalQuantidade |-> 10],
                       [chave |-> <<"B">>, totalQuantidade |-> 10] >> } }

\* the bundles of the planning sessions
SampleDatasPagina ==
    { [metadata |-> [meses |-> Horizonte],
       cadastro |-> << CadastroDe(<<"A">>, cad), CadastroDe(<<"B">>, Cad(100, 5, 0, 4, 7, 3, 2, 1)) >>,
       projecao |-> << ProjecaoDoJson(<<"A">>, [i \in 0..(NMeses - 1) |-> Inteiro(30)]),
                       ProjecaoDoJson(<<"B">>, [i \in 0..(NMeses - 1) |-> Inteiro(20)]) >>] :
        cad \in { Cad(20, 0, 0, 0, 30, 0, 0, 0), Cad(86, 0, 0, 0, 30, 0, 0, 0) } }

\* the coverage dates picked in the panel: inside the second month and inside the third
DatasDoPainel == { ChaveData(2026, 12, 10), ChaveData(2027, 1, 20) }

\* the week cells typed into, and the quantities typed
IndicesDeSemana == {0, 1}
ValoresDeSemana == {0, 25}

\* the most calls of the loader in one session
MaxChamadas == 3

\* the readings of the clock, in order: two days of one month, then two later months
RelogioDoCache ==
    << [ano |-> 2026, mes |-> 11, dia |-> 4], [ano |-> 2026, mes |-> 11, dia |-> 20],
       [ano |-> 2026, mes |-> 12, dia |-> 2], [ano |-> 2027, mes |-> 1, dia |-> 5] >>

\* the day on which the session runs, inside the first month of the horizon
DatasDeHoje == { [ano |-> 2026, mes |-> 11, dia |-> 4] }

\* the quantities typed into a cell
ValoresDigitados == { Inteiro(25), Inteiro(0) }

\* month keys handed to parseMesAno: two of the form YYYY_MM, then keys of other forms
ChavesDeMes ==
    { ChaveMes(2026, 11), ChaveMes(2027, 2),
      <<"2", "0", "2", "7", "_", "1">>,
      <<"2", "0", "2", "6", "-", "1", "1">>,
      <<"2", "0", "2", "6", "1", "1">>,
      <<"2", "0", "2", "6", "_", "1", "1", "_", "0", "5">>,
      <<"2", "0", "2", "6", "_", "1", "a">>,
      <<"2", "6", "_", "1", "1">>,
      <<"n", "o", "v", "_", "2", "6">>,
      <<"2", "0", "2", "6", "_">>,
      << >> }

\* `${ano}_${mes}` with no padding of the month
ChaveSemZero(ano, mes) == ToStr(ano) \o <<"_">> \o ToStr(mes)

\* horizons handed to the engine: the regular one, one whose last key has an
\* unpadded month, one whose first key carries a day
HorizontesDoMotor ==
    { Horizonte,
      [k \in 1..NMeses |-> LET d == UTCData(2026, 11 + (k - 1), 1)
                           IN IF k = NMeses THEN ChaveSemZero(d.ano, d.mes) ELSE ChaveMes(d.ano, d.mes)],
      [k \in 1..NMeses |-> IF k = 1 THEN ChaveMes(2026, 11) \o <<"_", "0", "5">> ELSE Horizonte[k]] }

\* lead times of the arrival-index calls, up to several months
LeadTimesDeChegada == {0, 5, 20, 31, 45, 70, 100, 130}

\* reference dates of the arrival-index calls: absent, inside the first month
\* of the horizon, before it, and after the whole horizon
DatasDeChegada ==
    { << >>, ChaveData(2026, 11, 15), ChaveData(2026, 11, 28), ChaveData(2026, 10, 20), ChaveData(2027, 3, 2) }

\* the months whose week blocks are computed: 30, 31, 28 and 29 days
MesesDosBlocos ==
    { [ano |-> 2026, mes |-> 11], [ano |-> 2026, mes |-> 12],
      [ano |-> 2027, mes |-> 2], [ano |-> 2028, mes |-> 2] }

\* the calls of the utility functions, each with its arguments
EntradasUtil ==
    { [funcao |-> "entrada", para |-> "parseMesAno", mesAno |-> k] : k \in ChavesDeMes }
    \cup { [funcao |-> "entrada", para |-> "calcularIndiceMesChegada", indiceMesPedido |-> i,
            ltDias |-> lt, meses |-> Horizonte, dataReferencia |-> d] :
            i \in 0..(NMeses - 1), lt \in LeadTimesDeChegada, d \in DatasDeChegada }
    \cup { [funcao |-> "entrada", para |-> "calcularSemanasRestantes", ano |-> m.ano, mes |-> m.mes,
            diaReferencia |-> d] : m \in MesesDosBlocos, d \in 1..31 }
    \cup { [funcao |-> "entrada", para |-> "recalcularProjecaoSKU", cadastro |-> c, meses |-> h,
            sellOutPorMes |-> [mes \in Chaves(h) |-> Inteiro(30)]] :
            c \in Cadastros, h \in HorizontesDoMotor }

MesVazio == [SELL_OUT |-> 0, ESTOQUE_PROJETADO |-> 0, ESTOQUE_OBJETIVO |-> 0, PEDIDO |-> 0, ENTRADA |-> 0]

\* ------------------------------------------------------------------------
\* State
\* ------------------------------------------------------------------------
VARIABLES
    cadastro,        \* SKUCadastro of the SKU being recomputed
    meses,           \* the month keys of the horizon
    sellOutPorMes,   \* Record<string, number>: demand per month key
    dataReferencia,  \* "YYYY-MM-DD" or '' when absent
    pedidosManuais,  \* Record<string, number | null>: the manual overrides
    resultado,       \* Record<string, MesData> returned by the last call
    status,          \* getStatusSKU of the last result
    fase,            \* "entrada" before the first call, "calculado" after
    dist,            \* one call of a weekly distribution function: arguments and return value
    cob,             \* one call of calcularCoberturaPorData: the two dates and the return value
    sampleData,      \* the bundle served as /sample-data.json
    hoje,            \* the date of the system clock
    dados,           \* useState dados: the bundle obterProjecaoInicial returned, once loaded
    editedCells,     \* useState editedCells: Map from `${chave}|${mes}` to the typed value
    projecoesComEdicoes,  \* the memo of the same name: the series the hook exposes
    dadosFiltrados,  \* the memo of the same name, with no filter set: the rows of the table
    csv,             \* the file the last step downloaded, if it downloaded one
    util,            \* one call of a utility function: its arguments and its return value
    localStorage,    \* window.localStorage: the stored string of each key
    historia,        \* history: the clock month at which each cell was last typed, and the last map written
    pedidos,         \* useState pedidos of usePedidosAprovacao: the approval requests
    weeklyEdits,     \* useState weeklyEdits of Home: Map from SKU key to the typed week values
    coverageWeeklyEdits,  \* useState coverageWeeklyEdits of Home: Map from SKU key to the week values of a coverage
    cachedData,      \* the module variable of the data adapter: the bundle cached, or null
    cachedRefMonth,  \* the module variable of the data adapter: the month the bundle was cached under, or null
    chamadas         \* the calls of obterProjecaoInicial: where each one stands and what it holds

varsMotor == <<cadastro, meses, sellOutPorMes, dataReferencia, pedidosManuais, resultado, status, fase>>
varsHook == <<sampleData, hoje, dados, editedCells, projecoesComEdicoes, dadosFiltrados, csv>>
varsNovos == <<weeklyEdits, coverageWeeklyEdits, cachedData, cachedRefMonth, chamadas>>
varsOutros == <<util, localStorage, historia, pedidos, varsNovos>>
vars == <<cadastro, meses, sellOutPorMes, dataReferencia, pedidosManuais, resultado, status, fase, dist, cob,
          sampleData, hoje, dados, editedCells, projecoesComEdicoes, dadosFiltrados, csv,
          util, localStorage, historia, pedidos,
          weeklyEdits, coverageWeeklyEdits, cachedData, cachedRefMonth, chamadas>>

\* no distribution call is in progress
DistParado == [funcao |-> "nenhuma"]

\* no coverage call is in progress
CobParado == [chamada |-> "nenhuma"]

\* no file was downloaded
SemDownload == [botao |-> "nenhum"]

\* the hook is not mounted
HookParado ==
    /\ sampleData = [metadata |-> [meses |-> << >>], cadastro |-> << >>, projecao |-> << >>]
    /\ hoje = [ano |-> 2026, mes |-> 11, dia |-> 1]
    /\ dados = [carregado |-> FALSE]
    /\ editedCells = << >>
    /\ projecoesComEdicoes = << >>
    /\ dadosFiltrados = << >>
    /\ csv = SemDownload

\* no week value was typed or applied, nothing is cached and no load is under way
NovosParados ==
    /\ weeklyEdits = << >>
    /\ coverageWeeklyEdits = << >>
    /\ cachedData = Null
    /\ cachedRefMonth = Null
    /\ chamadas = << >>

\* no utility call, no stored edits and no approval request
OutrosParados ==
    /\ util = [funcao |-> "nenhuma"]
    /\ localStorage = << >>
    /\ historia = << >>
    /\ pedidos = << >>
    /\ NovosParados

\* the projection engine is not in use
MotorParado ==
    /\ cadastro = Cad(0, 0, 0, 0, 0, 0, 0, 0)
    /\ meses = Horizonte
    /\ sellOutPorMes = [mes \in Chaves(Horizonte) |-> Inteiro(0)]
    /\ dataReferencia = << >>
    /\ pedidosManuais = [mes \in Chaves(Horizonte) |-> Null]
    /\ resultado = [mes \in Chaves(Horizonte) |-> MesVazio]
    /\ status = "ok"
    /\ fase = "parado"

Init ==
    /\ cadastro \in Cadastros
    /\ meses = Horizonte
    /\ \E perfil \in PerfisDemanda : sellOutPorMes = SellOutDe(perfil, Horizonte)
    /\ dataReferencia \in DatasReferencia
    /\ pedidosManuais = [mes \in Chaves(Horizonte) |-> Null]
    /\ resultado = [mes \in Chaves(Horizonte) |-> MesVazio]
    /\ status = "ok"
    /\ fase = "entrada"
    /\ dist = DistParado
    /\ cob = CobParado
    /\ HookParado
    /\ OutrosParados

\* the first call, with no manual override
Recalcular ==
    /\ fase = "entrada"
    /\ fase' = "calculado"
    /\ resultado' = recalcularProjecaoSKU(cadastro, meses, sellOutPorMes, pedidosManuais, dataReferencia)
    /\ status' = getStatusSKU(resultado', meses)
    /\ UNCHANGED <<cadastro, meses, sellOutPorMes, dataReferencia, pedidosManuais, dist, cob, varsHook, varsOutros>>

\* a call with the override of one month set or removed
AjustarPedido(mes, valor) ==
    /\ fase = "calculado"
    /\ pedidosManuais[mes] # valor
    /\ (pedidosManuais[mes] = Null) =>
          Cardinality({m \in Chaves(meses) : pedidosManuais[m] # Null}) < MaxEdicoes
    /\ pedidosManuais' = [pedidosManuais EXCEPT ![mes] = valor]
    /\ resultado' = recalcularProjecaoSKU(cadastro, meses, sellOutPorMes, pedidosManuais', dataReferencia)
    /\ status' = getStatusSKU(resultado', meses)
    /\ UNCHANGED <<cadastro, meses, sellOutPorMes, dataReferencia, fase, dist, cob, varsHook, varsOutros>>

Next ==
    \/ Recalcular
    \/ \E mes \in Chaves(meses), valor \in ValoresManuais \cup {Null} : AjustarPedido(mes, valor)

Spec == Init /\ [][Next]_vars

\* ------------------------------------------------------------------------
\* The weekly distribution functions, each applied once to drawn arguments
\* ------------------------------------------------------------------------
InitDist ==
    /\ MotorParado
    /\ cob = CobParado
    /\ HookParado
    /\ OutrosParados
    /\ \E e \in EntradasSemanas, pedidoMensal \in PedidosMensais, pedidoProximo \in PedidosProximoMes :
          dist = [funcao |-> "entrada",
                  mesAtual |-> e.mesAtual,
                  semanas |-> e.semanas,
                  pedidoMensal |-> pedidoMensal,
                  pedidoPorMes |-> PedidoPorMesDe(e.mesAtual, pedidoMensal, pedidoProximo),
                  valores |-> << >>]

DistribuirSimples ==
    /\ dist.funcao = "entrada"
    /\ dist' = [dist EXCEPT !.funcao = "distribuirPedidoSimples",
                            !.valores = distribuirPedidoSimples(dist.pedidoMensal, dist.semanas)]
    /\ UNCHANGED <<varsMotor, cob, varsHook, varsOutros>>

DistribuirPorSemanas ==
    /\ dist.funcao = "entrada"
    /\ dist' = [dist EXCEPT !.funcao = "distribuirPedidoPorSemanas",
                            !.valores = distribuirPedidoPorSemanas(dist.pedidoMensal, dist.semanas)]
    /\ UNCHANGED <<varsMotor, cob, varsHook, varsOutros>>

DistribuirMultiMes ==
    /\ dist.funcao = "entrada"
    /\ dist' = [dist EXCEPT !.funcao = "distribuirPedidoMultiMes",
                            !.valores = distribuirPedidoMultiMes(dist.mesAtual, dist.pedidoPorMes, dist.semanas)]
    /\ UNCHANGED <<varsMotor, cob, varsHook, varsOutros>>

NextDist ==
    \/ DistribuirSimples
    \/ DistribuirPorSemanas
    \/ DistribuirMultiMes

SpecDist == InitDist /\ [][NextDist]_vars

\* ------------------------------------------------------------------------
\* The coverage calculator applied once to a SKU, a reference date and a
\* coverage date
\* ------------------------------------------------------------------------
InitCob ==
    /\ cadastro \in CadastrosCobertura
    /\ meses = Horizonte
    /\ \E perfil \in PerfisDemanda : sellOutPorMes = SellOutDe(perfil, Horizonte)
    /\ dataReferencia = << >>
    /\ pedidosManuais = [mes \in Chaves(Horizonte) |-> Null]
    /\ resultado = [mes \in Chaves(Horizonte) |-> MesVazio]
    /\ status = "ok"
    /\ fase = "parado"
    /\ dist = DistParado
    /\ HookParado
    /\ OutrosParados
    /\ \E ref \in DatasDeReferencia, data \in DatasDeCobertura :
          cob = [chamada |-> "entrada", dataReferencia |-> ref, dataCobertura |-> data]

CalcularCobertura ==
    /\ cob.chamada = "entrada"
    /\ cob' = [chamada |-> "calcularCoberturaPorData",
               dataReferencia |-> cob.dataReferencia,
               dataCobertura |-> cob.dataCobertura,
               retorno |-> calcularCoberturaPorData(cadastro, meses, sellOutPorMes,
                                                    cob.dataCobertura, cob.dataReferencia)]
    /\ UNCHANGED <<varsMotor, dist, varsHook, varsOutros>>

NextCob == CalcularCobertura

SpecCob == InitCob /\ [][NextCob]_vars

\* ------------------------------------------------------------------------
\* The utility functions and the engine, each applied once to drawn arguments
\* ------------------------------------------------------------------------
InitUtil ==
    /\ MotorParado
    /\ dist = DistParado
    /\ cob = CobParado
    /\ HookParado
    /\ localStorage = << >>
    /\ historia = << >>
    /\ pedidos = << >>
    /\ NovosParados
    /\ util \in {e \in EntradasUtil :
                    e.para = "calcularSemanasRestantes" => e.diaReferencia <= diasNoMes(e.ano, e.mes)}

\* the call has returned r; none of the four functions has a throw statement
\* or an operation that throws on a string, a number or an array, so lancou
\* (an exception left the call) is always false
Retornou(u, r) ==
    [k \in DOMAIN u \cup {"retorno", "lancou"} |->
        IF k = "retorno" THEN r
        ELSE IF k = "lancou" THEN FALSE
        ELSE IF k = "funcao" THEN u.para
        ELSE u[k]]

ChamarParseMesAno ==
    /\ util.funcao = "entrada" /\ util.para = "parseMesAno"
    /\ util' = Retornou(util, parseMesAno(util.mesAno))
    /\ UNCHANGED <<varsNovos, varsMotor, dist, cob, varsHook, localStorage, historia, pedidos>>

ChamarIndiceMesChegada ==
    /\ util.funcao = "entrada" /\ util.para = "calcularIndiceMesChegada"
    /\ util' = Retornou(util, calcularIndiceMesChegada(util.indiceMesPedido, util.ltDias,
                                                       util.meses, util.dataReferencia))
    /\ UNCHANGED <<varsNovos, varsMotor, dist, cob, varsHook, localStorage, historia, pedidos>>

ChamarSemanasRestantes ==
    /\ util.funcao = "entrada" /\ util.para = "calcularSemanasRestantes"
    /\ util' = Retornou(util, calcularSemanasRestantes(util.ano, util.mes, util.diaReferencia))
    /\ UNCHANGED <<varsNovos, varsMotor, dist, cob, varsHook, localStorage, historia, pedidos>>

\* the engine on a horizon of its own, with no override and no reference date
ChamarRecalcular ==
    /\ util.funcao = "entrada" /\ util.para = "recalcularProjecaoSKU"
    /\ util' = Retornou(util, recalcularProjecaoSKU(util.cadastro, util.meses, util.sellOutPorMes,
                                                    [mes \in Chaves(util.meses) |-> Null], << >>))
    /\ UNCHANGED <<varsNovos, varsMotor, dist, cob, varsHook, localStorage, historia, pedidos>>

NextUtil ==
    \/ ChamarParseMesAno
    \/ ChamarIndiceMesChegada
    \/ ChamarSemanasRestantes
    \/ ChamarRecalcular

SpecUtil == InitUtil /\ [][NextUtil]_vars

\* ------------------------------------------------------------------------
\* The hook: the bundle is loaded once, then cells are edited and undone
\* ------------------------------------------------------------------------
InitHook ==
    /\ MotorParado
    /\ dist = DistParado
    /\ cob = CobParado
    /\ sampleData \in SampleDatas
    /\ hoje \in DatasDeHoje
    /\ dados = [carregado |-> FALSE]
    /\ editedCells = << >>
    /\ projecoesComEdicoes = << >>
    /\ dadosFiltrados = << >>
    /\ csv = SemDownload
    /\ OutrosParados

\* the effect that loads the bundle: obterProjecaoInicial, then setDados
CarregarDados ==
    /\ ~dados.carregado
    /\ dados' = obterProjecaoInicial(sampleData, hoje)
    /\ projecoesComEdicoes' = ProjecoesComEdicoes(dados', editedCells)
    /\ dadosFiltrados' = DadosFiltrados(dados', projecoesComEdicoes')
    /\ csv' = SemDownload
    /\ UNCHANGED <<varsMotor, dist, cob, sampleData, hoje, editedCells, varsOutros>>

\* variant: the new map holds the typed cell only
editarPedidoSoACelula(chave, mes, valor) ==
    /\ dados.carregado
    /\ ChaveCelula(chave, mes) \notin DOMAIN editedCells => Cardinality(DOMAIN editedCells) < MaxEdicoes
    /\ editedCells' = [k \in {ChaveCelula(chave, mes)} |-> valor]
    /\ projecoesComEdicoes' = ProjecoesComEdicoes(dados, editedCells')
    /\ dadosFiltrados' = DadosFiltrados(dados, projecoesComEdicoes')
    /\ csv' = SemDownload
    /\ UNCHANGED <<varsMotor, dist, cob, sampleData, hoje, dados, varsOutros>>

editarPedido(chave, mes, valor) ==
    /\ dados.carregado
    /\ ChaveCelula(chave, mes) \notin DOMAIN editedCells => Cardinality(DOMAIN editedCells) < MaxEdicoes
    /\ editedCells' = [k \in DOMAIN editedCells \cup {ChaveCelula(chave, mes)} |->
                          IF k = ChaveCelula(chave, mes) THEN valor ELSE editedCells[k]]
    /\ projecoesComEdicoes' = ProjecoesComEdicoes(dados, editedCells')
    /\ dadosFiltrados' = DadosFiltrados(dados, projecoesComEdicoes')
    /\ csv' = SemDownload
    /\ UNCHANGED <<varsMotor, dist, cob, sampleData, hoje, dados, varsOutros>>

\* variant: the series shown is not recomputed when a cell is undone
desfazerEdicaoSemRecalculo(chave, mes) ==
    /\ dados.carregado
    /\ ChaveCelula(chave, mes) \in DOMAIN editedCells
    /\ editedCells' = [k \in DOMAIN editedCells \ {ChaveCelula(chave, mes)} |-> editedCells[k]]
    /\ csv' = SemDownload
    /\ UNCHANGED <<varsMotor, dist, cob, sampleData, hoje, dados, projecoesComEdicoes, dadosFiltrados, varsOutros>>

\* offered on an edited cell only
desfazerEdicao(chave, mes) ==
    /\ dados.carregado
    /\ ChaveCelula(chave, mes) \in DOMAIN editedCells
    /\ editedCells' = [k \in DOMAIN editedCells \ {ChaveCelula(chave, mes)} |-> editedCells[k]]
    /\ projecoesComEdicoes' = ProjecoesComEdicoes(dados, editedCells')
    /\ dadosFiltrados' = DadosFiltrados(dados, projecoesComEdicoes')
    /\ csv' = SemDownload
    /\ UNCHANGED <<varsMotor, dist, cob, sampleData, hoje, dados, varsOutros>>

limparEdicoes ==
    /\ dados.carregado
    /\ DOMAIN editedCells # {}
    /\ editedCells' = << >>
    /\ projecoesComEdicoes' = ProjecoesComEdicoes(dados, editedCells')
    /\ dadosFiltrados' = DadosFiltrados(dados, projecoesComEdicoes')
    /\ csv' = SemDownload
    /\ UNCHANGED <<varsMotor, dist, cob, sampleData, hoje, dados, varsOutros>>

\* editedCells.has(`${chave}|${mes}`)
isCellEdited(chave, mes) == ChaveCelula(chave, mes) \in DOMAIN editedCells

\* editedCells.size
totalEdicoes == Cardinality(DOMAIN editedCells)

NextHook ==
    \/ CarregarDados
    \/ \E chave \in ChavesSKU, mes \in Chaves(Horizonte), valor \in ValoresDigitados : editarPedido(chave, mes, valor)
    \/ \E chave \in ChavesSKU, mes \in Chaves(Horizonte) : desfazerEdicao(chave, mes)
    \/ limparEdicoes

SpecHook == InitHook /\ [][NextHook]_vars

\* ------------------------------------------------------------------------
\* The planning page: week cells, the coverage panel and the clear-all button
\* ------------------------------------------------------------------------
InitPlanejamento ==
    /\ MotorParado
    /\ dist = DistParado
    /\ cob = CobParado
    /\ sampleData \in SampleDatasPagina
    /\ hoje \in DatasDeHoje
    /\ dados = [carregado |-> FALSE]
    /\ editedCells = << >>
    /\ projecoesComEdicoes = << >>
    /\ dadosFiltrados = << >>
    /\ csv = SemDownload
    /\ OutrosParados

\* the row of a SKU in the table
LinhaDe(projecoes, chave) == projecoes[CHOOSE k \in 1..Len(projecoes) : projecoes[k].CHAVE = chave]

\* the week values shown for a row, and sent for approval
SemanasDaLinha(chave) ==
    getWeeklyDistribution(chave, LinhaDe(dadosFiltrados, chave).meses, Mes(dados.metadata.meses, 0),
                          semanasInfo(dados), weeklyEdits, coverageWeeklyEdits)

\* the state after the page's handlers changed the three maps
MapasDaPagina(celulas, manuais, cobertura) ==
    /\ editedCells' = celulas
    /\ weeklyEdits' = manuais
    /\ coverageWeeklyEdits' = cobertura
    /\ projecoesComEdicoes' = ProjecoesComEdicoes(dados, celulas)
    /\ dadosFiltrados' = DadosFiltrados(dados, projecoesComEdicoes')
    /\ csv' = SemDownload
    /\ UNCHANGED <<varsMotor, dist, cob, sampleData, hoje, dados, util, localStorage, historia, pedidos,
                   cachedData, cachedRefMonth, chamadas>>

\* the week values after one of them is typed over
NovosValores(valores, semanaIdx, novoValor) ==
    [k \in 1..Len(valores) |-> IF k = semanaIdx + 1 THEN novoValor ELSE valores[k]]

\* a week cell is confirmed with a value other than the one shown
handleWeekEdit(chave, semanaIdx, novoValor) ==
    /\ dados.carregado
    /\ \E k \in 1..Len(dadosFiltrados) : dadosFiltrados[k].CHAVE = chave
    /\ semanaIdx < Len(SemanasDaLinha(chave))
    /\ SemanasDaLinha(chave)[semanaIdx + 1] # novoValor
    /\ MapasDaPagina(MapSet(editedCells, ChaveCelula(chave, Mes(dados.metadata.meses, 0)),
                            Inteiro(SomaLista(NovosValores(SemanasDaLinha(chave), semanaIdx, novoValor)))),
                     MapSet(weeklyEdits, chave, NovosValores(SemanasDaLinha(chave), semanaIdx, novoValor)),
                     coverageWeeklyEdits)

\* the undo of a week cell, offered when the first month of the row is edited
onUndoSemana(chave) ==
    /\ dados.carregado
    /\ Len(semanasInfo(dados)) > 0
    /\ isCellEdited(chave, Mes(dados.metadata.meses, 0))
    /\ MapasDaPagina(MapDelete(editedCells, ChaveCelula(chave, Mes(dados.metadata.meses, 0))),
                     MapDelete(weeklyEdits, chave),
                     coverageWeeklyEdits)

\* variant: only the first order of the list becomes an override
handleAplicarCoberturaSoOPrimeiro(listaDePedidos, weeklyOverrides) ==
    MapasDaPagina(AplicarPedidos(editedCells, SubSeq(listaDePedidos, 1, 1)),
                  weeklyEdits,
                  MapMerge(coverageWeeklyEdits, weeklyOverrides))

\* handleAplicarCobertura: every order becomes an override, the week values are merged
handleAplicarCobertura(listaDePedidos, weeklyOverrides) ==
    MapasDaPagina(AplicarPedidos(editedCells, listaDePedidos),
                  weeklyEdits,
                  MapMerge(coverageWeeklyEdits, weeklyOverrides))

\* the button of the panel, enabled when some SKU has something to anticipate
AplicarResultados(resultados) ==
    /\ Len(ResultadosComPedido(resultados)) > 0
    /\ handleAplicarCobertura(
          PedidosDaCobertura(ResultadosComPedido(resultados), Mes(dados.metadata.meses, 0)),
          WeeklyOverrides(<< >>, ResultadosComPedido(resultados) \o ResultadosSemPedido(resultados),
                          semanasInfo(dados)))

handleAplicar(dataCobertura) ==
    /\ dados.carregado
    /\ AplicarResultados(Resultados(dadosFiltrados, dados, dataCobertura))

\* the clear-all button of the action bar, shown while some cell is edited
handleLimparEdicoes ==
    /\ dados.carregado
    /\ totalEdicoes > 0
    /\ MapasDaPagina(<< >>, << >>, << >>)

NextPlanejamento ==
    \/ CarregarDados
    \/ \E chave \in ChavesSKU, semanaIdx \in IndicesDeSemana, novoValor \in ValoresDeSemana :
          handleWeekEdit(chave, semanaIdx, novoValor)
    \/ \E chave \in ChavesSKU : onUndoSemana(chave)
    \/ \E dataCobertura \in DatasDoPainel : handleAplicar(dataCobertura)
    \/ handleLimparEdicoes

SpecPlanejamento == InitPlanejamento /\ [][NextPlanejamento]_vars

\* ------------------------------------------------------------------------
\* The loader and its module-level cache: calls overlap, the fetch of each
\* ends well or fails, and the clock moves on
\* ------------------------------------------------------------------------
\* `${hoje.getFullYear()}-${String(hoje.getMonth() + 1).padStart(2, '0')}`
RefMonth(data) == ToStr(data.ano) \o <<"-">> \o PadStart2(ToStr(data.mes))

\* a bundle held by the cache, and the month it is held under
Cached(bundle) == [t |-> "dados", v |-> bundle]
CachedMonth(refMonth) == [t |-> "texto", v |-> refMonth]

\* variant: the month of the cache is not compared
CacheDeQualquerMes(refMonth) == cachedData.t # "null"

\* cachedData && cachedRefMonth === refMonth
CacheDoMes(refMonth) ==
    /\ cachedData.t # "null"
    /\ cachedRefMonth.t = "texto"
    /\ cachedRefMonth.v = refMonth

InitCache ==
    /\ MotorParado
    /\ dist = DistParado
    /\ cob = CobParado
    /\ sampleData \in SampleDatasPagina
    /\ hoje = RelogioDoCache[1]
    /\ dados = [carregado |-> FALSE]
    /\ editedCells = << >>
    /\ projecoesComEdicoes = << >>
    /\ dadosFiltrados = << >>
    /\ csv = SemDownload
    /\ OutrosParados

\* a call of obterProjecaoInicial up to its first await: the cached bundle is
\* returned, or the cache is emptied and the fetch starts
ChamarObterProjecaoInicial ==
    /\ Len(chamadas) < MaxChamadas
    /\ IF CacheDoMes(RefMonth(hoje))
       THEN /\ chamadas' = Append(chamadas, [hoje |-> hoje, refMonth |-> RefMonth(hoje), fase |-> "retornou",
                                            doCache |-> TRUE, retorno |-> cachedData.v])
            /\ UNCHANGED <<cachedData, cachedRefMonth>>
       ELSE /\ chamadas' = Append(chamadas, [hoje |-> hoje, refMonth |-> RefMonth(hoje), fase |-> "fetch",
                                            doCache |-> FALSE, retorno |-> [carregado |-> FALSE]])
            /\ cachedData' = Null
            /\ UNCHANGED cachedRefMonth
    /\ UNCHANGED <<varsMotor, dist, cob, varsHook, util, localStorage, historia, pedidos,
                   weeklyEdits, coverageWeeklyEdits>>

\* the fetch of a call ends well: the bundle is recomputed for the day the call
\* started on, cached under the month of that day, and returned
FetchResolvido(i) ==
    /\ chamadas[i].fase = "fetch"
    /\ cachedData' = Cached(obterProjecaoInicial(sampleData, chamadas[i].hoje))
    /\ cachedRefMonth' = CachedMonth(chamadas[i].refMonth)
    /\ chamadas' = [chamadas EXCEPT ![i].fase = "retornou", ![i].retorno = cachedData'.v]
    /\ UNCHANGED <<varsMotor, dist, cob, varsHook, util, localStorage, historia, pedidos,
                   weeklyEdits, coverageWeeklyEdits>>

\* the fetch of a call fails, or its answer is not ok: the call throws
FetchFalhou(i) ==
    /\ chamadas[i].fase = "fetch"
    /\ chamadas' = [chamadas EXCEPT ![i].fase = "falhou"]
    /\ UNCHANGED <<varsMotor, dist, cob, varsHook, util, localStorage, historia, pedidos,
                   weeklyEdits, coverageWeeklyEdits, cachedData, cachedRefMonth>>

\* the clock moves to its next reading
AvancarRelogio ==
    /\ \E k \in 1..(Len(RelogioDoCache) - 1) : hoje = RelogioDoCache[k] /\ hoje' = RelogioDoCache[k + 1]
    /\ UNCHANGED <<varsMotor, dist, cob, sampleData, dados, editedCells, projecoesComEdicoes, dadosFiltrados,
                   csv, varsOutros>>

NextCache ==
    \/ ChamarObterProjecaoInicial
    \/ \E i \in 1..Len(chamadas) : FetchResolvido(i)
    \/ \E i \in 1..Len(chamadas) : FetchFalhou(i)
    \/ AvancarRelogio

SpecCache == InitCache /\ [][NextCache]_vars

\* ------------------------------------------------------------------------
\* The page (Home): the hook, plus the two buttons that download the CSV
\* ------------------------------------------------------------------------
InitExport ==
    /\ MotorParado
    /\ dist = DistParado
    /\ cob = CobParado
    /\ sampleData \in SampleDatasExport
    /\ hoje \in DatasDeHoje
    /\ dados = [carregado |-> FALSE]
    /\ editedCells = << >>
    /\ projecoesComEdicoes = << >>
    /\ dadosFiltrados = << >>
    /\ csv = SemDownload
    /\ OutrosParados

\* the "Exportar" button of the page header
ExportarCabecalho ==
    /\ dados.carregado
    /\ csv' = [botao |-> "cabecalho", linhas |-> exportarParaCSV(dados, Lista(projecoesComEdicoes))]
    /\ UNCHANGED <<varsMotor, dist, cob, sampleData, hoje, dados, editedCells, projecoesComEdicoes,
                   dadosFiltrados, varsOutros>>

\* the "Exportar CSV" button of the floating bar, shown while totalEdicoes > 0
\* (the week selection, which also shows the bar, is not part of the model)
handleExportCSV ==
    /\ dados.carregado
    /\ Cardinality(DOMAIN editedCells) > 0
    /\ csv' = [botao |-> "actionBar", linhas |-> exportarParaCSV(dados, Undefined)]
    /\ UNCHANGED <<varsMotor, dist, cob, sampleData, hoje, dados, editedCells, projecoesComEdicoes,
                   dadosFiltrados, varsOutros>>

NextExport ==
    \/ NextHook
    \/ ExportarCabecalho
    \/ handleExportCSV

SpecExport == InitExport /\ [][NextExport]_vars

\* ------------------------------------------------------------------------
\* Sessions of usePersistedEdits: edits are written to localStorage, the page
\* is reloaded, and the clock passes from one month to the next
\* ------------------------------------------------------------------------
\* what the history keeps of a session start: the clock month, the map
\* loaded, the month each loaded cell was typed in, and the last write before it
Carga(map, h, agora) ==
    [mes |-> MesDoRelogio(agora),
     mapa |-> map,
     digitadoEm |-> [c \in DOMAIN map |-> h.digitadoEm[c]],
     ultimoPersistido |-> h.ultimoPersistido]

\* nothing was typed and nothing was written yet; the first session starts
SemHistoria(agora) ==
    [digitadoEm |-> << >>,
     ultimoPersistido |-> [mes |-> << >>, mapa |-> << >>],
     carga |-> [mes |-> MesDoRelogio(agora), mapa |-> << >>, digitadoEm |-> << >>,
                ultimoPersistido |-> [mes |-> << >>, mapa |-> << >>]]]

\* the history after a map was written
Persistido(h, map, agora) == [h EXCEPT !.ultimoPersistido = [mes |-> MesDoRelogio(agora), mapa |-> map]]

InitPersist ==
    /\ MotorParado
    /\ dist = DistParado
    /\ cob = CobParado
    /\ sampleData = [metadata |-> [meses |-> << >>], cadastro |-> << >>, projecao |-> << >>]
    /\ hoje \in DatasDeHoje
    /\ dados = [carregado |-> FALSE]
    /\ projecoesComEdicoes = << >>
    /\ dadosFiltrados = << >>
    /\ csv = SemDownload
    /\ util = [funcao |-> "nenhuma"]
    /\ pedidos = << >>
    /\ NovosParados
    /\ localStorage = << >>
    /\ editedCells = carregarEdicoes(localStorage, hoje)
    /\ historia = SemHistoria(hoje)

editarPedidoPersistido(chave, mes, valor) ==
    /\ ChaveCelula(chave, mes) \notin DOMAIN editedCells => Cardinality(DOMAIN editedCells) < MaxEdicoes
    /\ editedCells' = [k \in DOMAIN editedCells \cup {ChaveCelula(chave, mes)} |->
                          IF k = ChaveCelula(chave, mes) THEN valor ELSE editedCells[k]]
    /\ localStorage' = persistirEdicoes(localStorage, editedCells', hoje)
    /\ historia' = Persistido([historia EXCEPT !.digitadoEm =
                                  [k \in DOMAIN historia.digitadoEm \cup {ChaveCelula(chave, mes)} |->
                                      IF k = ChaveCelula(chave, mes) THEN MesDoRelogio(hoje)
                                      ELSE historia.digitadoEm[k]]],
                              editedCells', hoje)
    /\ UNCHANGED <<varsNovos, varsMotor, dist, cob, sampleData, hoje, dados, projecoesComEdicoes, dadosFiltrados, csv,
                   util, pedidos>>

\* offered on an edited cell only
desfazerEdicaoPersistida(chave, mes) ==
    /\ ChaveCelula(chave, mes) \in DOMAIN editedCells
    /\ editedCells' = [k \in DOMAIN editedCells \ {ChaveCelula(chave, mes)} |-> editedCells[k]]
    /\ localStorage' = persistirEdicoes(localStorage, editedCells', hoje)
    /\ historia' = Persistido(historia, editedCells', hoje)
    /\ UNCHANGED <<varsNovos, varsMotor, dist, cob, sampleData, hoje, dados, projecoesComEdicoes, dadosFiltrados, csv,
                   util, pedidos>>

limparEdicoesPersistidas ==
    /\ DOMAIN editedCells # {}
    /\ editedCells' = << >>
    /\ localStorage' = persistirEdicoes(localStorage, editedCells', hoje)
    /\ historia' = Persistido(historia, editedCells', hoje)
    /\ UNCHANGED <<varsNovos, varsMotor, dist, cob, sampleData, hoje, dados, projecoesComEdicoes, dadosFiltrados, csv,
                   util, pedidos>>

\* the page is reloaded: a new session, whose state starts from carregarEdicoes
Recarregar ==
    /\ editedCells' = carregarEdicoes(localStorage, hoje)
    /\ historia' = [historia EXCEPT !.carga = Carga(editedCells', historia, hoje)]
    /\ UNCHANGED <<varsNovos, varsMotor, dist, cob, sampleData, hoje, dados, projecoesComEdicoes, dadosFiltrados, csv,
                   util, pedidos, localStorage>>

\* the clock reaches the first day of the next month
PassarMes ==
    /\ ChaveMes(UTCData(hoje.ano, hoje.mes + 1, 1).ano, UTCData(hoje.ano, hoje.mes + 1, 1).mes)
          \in MesesDoRelogio
    /\ hoje' = UTCData(hoje.ano, hoje.mes + 1, 1)
    /\ UNCHANGED <<varsNovos, varsMotor, dist, cob, sampleData, dados, editedCells, projecoesComEdicoes, dadosFiltrados,
                   csv, util, pedidos, localStorage, historia>>

NextPersist ==
    \/ \E e \in EdicoesPersistidas : editarPedidoPersistido(e.chave, e.mes, e.valor)
    \/ \E c \in CelulasPersistidas : desfazerEdicaoPersistida(c.chave, c.mes)
    \/ limparEdicoesPersistidas
    \/ Recarregar
    \/ PassarMes

SpecPersist == InitPersist /\ [][NextPersist]_vars

\* ------------------------------------------------------------------------
\* The approval requests: sent from the planning page, approved, rejected or
\* removed on the approval page
\* ------------------------------------------------------------------------
InitAprovacao ==
    /\ MotorParado
    /\ dist = DistParado
    /\ cob = CobParado
    /\ HookParado
    /\ util = [funcao |-> "nenhuma"]
    /\ historia = << >>
    /\ localStorage = << >>
    /\ pedidos = carregarPedidos(localStorage)
    /\ NovosParados

\* variant: the request whose status changes moves to the front of the list
atualizarStatusNaFrente(id, novoStatus) ==
    /\ pedidos' = SelectSeq(ComStatus(pedidos, id, novoStatus), LAMBDA p : p.id = id)
                      \o SelectSeq(ComStatus(pedidos, id, novoStatus), LAMBDA p : p.id # id)
    /\ localStorage' = persistir(localStorage, pedidos')
    /\ UNCHANGED <<varsNovos, varsMotor, dist, cob, varsHook, util, historia>>

atualizarStatus(id, novoStatus) ==
    /\ pedidos' = ComStatus(pedidos, id, novoStatus)
    /\ localStorage' = persistir(localStorage, pedidos')
    /\ UNCHANGED <<varsNovos, varsMotor, dist, cob, varsHook, util, historia>>

\* the most recent request first
adicionarPedido(pedido) ==
    /\ Len(pedidos) < MaxPedidosAprovacao
    /\ pedidos' = <<pedido>> \o pedidos
    /\ localStorage' = persistir(localStorage, pedidos')
    /\ UNCHANGED <<varsNovos, varsMotor, dist, cob, varsHook, util, historia>>

removerPedido(id) ==
    /\ pedidos' = SemPedido(pedidos, id)
    /\ localStorage' = persistir(localStorage, pedidos')
    /\ UNCHANGED <<varsNovos, varsMotor, dist, cob, varsHook, util, historia>>

\* a page is opened: its instance of the hook starts from carregarPedidos
MontarPedidos ==
    /\ pedidos' = carregarPedidos(localStorage)
    /\ UNCHANGED <<varsNovos, varsMotor, dist, cob, varsHook, util, historia, localStorage>>

NextAprovacao ==
    \/ \E pedido \in NovosPedidos : adicionarPedido(pedido)
    \/ \E instante \in Instantes, novoStatus \in {"aprovado", "rejeitado"} :
          atualizarStatus(ToStr(instante), novoStatus)
    \/ \E instante \in Instantes : removerPedido(ToStr(instante))
    \/ MontarPedidos

SpecAprovacao == InitAprovacao /\ [][NextAprovacao]_vars

\* ------------------------------------------------------------------------
\* The approval page: requests arrive from the planning page, and a card
\* offers its two buttons while its request is pending
\* ------------------------------------------------------------------------
\* the button Aprovar of the card of a pending request
onAprovar(k) ==
    /\ pedidos[k].status = "pendente"
    /\ atualizarStatus(pedidos[k].id, "aprovado")

\* the button Rejeitar of the card of a pending request
onRejeitar(k) ==
    /\ pedidos[k].status = "pendente"
    /\ atualizarStatus(pedidos[k].id, "rejeitado")

NextDecisao ==
    \/ \E pedido \in NovosPedidos : adicionarPedido(pedido)
    \/ \E k \in 1..Len(pedidos) : onAprovar(k)
    \/ \E k \in 1..Len(pedidos) : onRejeitar(k)
    \/ MontarPedidos

SpecDecisao == InitAprovacao /\ [][NextDecisao]_vars

\* ------------------------------------------------------------------------
\* Properties of recalcularProjecaoSKU and getStatusSKU
\* ------------------------------------------------------------------------
Indices == 0..(Len(meses) - 1)

Emitido(i) == resultado[Mes(meses, i)]

SemManual(i) == pedidosManuais[Mes(meses, i)].t = "null"

ComManual(i) == pedidosManuais[Mes(meses, i)].t = "number"

\* the integer initial stock ESTOQUE - IMPACTO - PREECHIMENTO_DEMANDA_LOJA + PENDENCIA + NNA
EstoqueInicialEmitido ==
    cadastro.ESTOQUE - cadastro.IMPACTO - cadastro.PREECHIMENTO_DEMANDA_LOJA
        + cadastro.PENDENCIA + cadastro.NNA

EstoqueAntes(i) == IF i = 0 THEN EstoqueInicialEmitido ELSE Emitido(i - 1).ESTOQUE_PROJETADO

\* C1: in the emitted series every month satisfies
\* ESTOQUE_PROJETADO[m] = ESTOQUE_PROJETADO[m-1] + ENTRADA[m] - SELL_OUT[m],
\* with the initial stock before the first month.
C1Conservacao ==
    fase = "calculado" =>
        \A i \in Indices :
            Emitido(i).ESTOQUE_PROJETADO = EstoqueAntes(i) + Emitido(i).ENTRADA - Emitido(i).SELL_OUT

\* C2: a month with a numeric manual override emits exactly that value as
\* PEDIDO, also when the value is 0, whatever the other months hold.
C2Fidelidade ==
    fase = "calculado" =>
        \A i \in Indices :
            ComManual(i) => Emitido(i).PEDIDO * Escala = pedidosManuais[Mes(meses, i)].v

\* an override of 0 on a month the engine would order for, next to another override
C2Witness ==
    /\ fase = "calculado"
    /\ \E i, k \in Indices :
        /\ i # k
        /\ pedidosManuais[Mes(meses, i)] = Inteiro(0)
        /\ ComManual(k)
        /\ Emitido(i).PEDIDO = 0
        /\ recalcularProjecaoSKU(cadastro, meses, sellOutPorMes,
                                 [pedidosManuais EXCEPT ![Mes(meses, i)] = Null],
                                 dataReferencia)[Mes(meses, i)].PEDIDO > 0

\* C3: a month without a manual override never emits a negative PEDIDO.
C3NaoNegativo ==
    fase = "calculado" => \A i \in Indices : SemManual(i) => Emitido(i).PEDIDO >= 0

\* a month without override whose stock is above the objective (the need is
\* negative and floored), after another month was overridden
C3Witness ==
    /\ fase = "calculado"
    /\ \E i, k \in Indices :
        /\ k < i
        /\ SemManual(i)
        /\ pedidosManuais[Mes(meses, k)] = Inteiro(25)
        /\ Emitido(i).PEDIDO = 0
        /\ Emitido(i).ESTOQUE_PROJETADO > Emitido(i).ESTOQUE_OBJETIVO

\* the arrival index of the order placed in the month of index i
ChegadaDe(i) == calcularIndiceMesChegada(i, cadastro.LT, meses, dataReferencia)

NoObjetivo(i) == Emitido(i).ESTOQUE_PROJETADO = Emitido(i).ESTOQUE_OBJETIVO

\* a month without override brings the stock of its arrival month to the objective
ChegadaCoberta ==
    \A i \in Indices :
        SemManual(i) =>
            Emitido(ChegadaDe(i)).ESTOQUE_PROJETADO >= Emitido(ChegadaDe(i)).ESTOQUE_OBJETIVO

C7Status ==
    fase = "calculado" =>
        LET negativo == \E i \in Indices \ {0} : Emitido(i).ESTOQUE_PROJETADO < 0
            baixo == \E i \in Indices \ {0} :
                        10 * Emitido(i).ESTOQUE_PROJETADO < 8 * Emitido(i).ESTOQUE_OBJETIVO
        IN status = IF negativo THEN "critical" ELSE IF baixo THEN "warning" ELSE "ok"

\* critical although another examined month only meets the warning condition
C7Witness ==
    /\ fase = "calculado"
    /\ status = "critical"
    /\ \E i \in Indices \ {0} :
          /\ Emitido(i).ESTOQUE_PROJETADO >= 0
          /\ 10 * Emitido(i).ESTOQUE_PROJETADO < 8 * Emitido(i).ESTOQUE_OBJETIVO

ManualSobe(i) ==
    /\ ComManual(i)
    /\ pedidosManuais'[Mes(meses, i)].t = "number"
    /\ pedidosManuais'[Mes(meses, i)].v > pedidosManuais[Mes(meses, i)].v

ManualDesce(i) ==
    /\ ComManual(i)
    /\ pedidosManuais'[Mes(meses, i)].t = "number"
    /\ pedidosManuais'[Mes(meses, i)].v < pedidosManuais[Mes(meses, i)].v

\* the first month after i that carries no override
ProximoSemManual(i, k) ==
    /\ k > i
    /\ SemManual(k)
    /\ \A m \in (i + 1)..(k - 1) : ~SemManual(m)

\* raising the override of month i never raises a later recomputed order,
\* lowering it never lowers one
DirecaoDoRecalculo ==
    \A i, k \in Indices :
        (k > i /\ SemManual(k)) =>
            /\ ManualSobe(i) => resultado'[Mes(meses, k)].PEDIDO <= Emitido(k).PEDIDO
            /\ ManualDesce(i) => resultado'[Mes(meses, k)].PEDIDO >= Emitido(k).PEDIDO

\* after the override of month i is lowered, the month k ends at or above its
\* objective, exactly at it when it orders, and an order that was already
\* positive grows by the whole reduction
Absorve(i, k) ==
    /\ resultado'[Mes(meses, k)].ESTOQUE_PROJETADO >= resultado'[Mes(meses, k)].ESTOQUE_OBJETIVO
    /\ resultado'[Mes(meses, k)].PEDIDO > 0 =>
          resultado'[Mes(meses, k)].ESTOQUE_PROJETADO = resultado'[Mes(meses, k)].ESTOQUE_OBJETIVO
    /\ (Emitido(k).PEDIDO > 0 /\ pedidosManuais'[Mes(meses, i)].v >= 0) =>
          (resultado'[Mes(meses, k)].PEDIDO - Emitido(k).PEDIDO) * Escala
              = pedidosManuais[Mes(meses, i)].v - pedidosManuais'[Mes(meses, i)].v

DemandaComZeros ==
    [mes \in Chaves(meses) |->
        IF Lookup(sellOutPorMes, mes).t = "number" THEN sellOutPorMes[mes] ELSE Inteiro(0)]

\* C10: a month whose demand is missing, non-numeric or NaN gives the same
\* series as an explicit demand of 0.
C10Tolerancia ==
    fase = "calculado" =>
        resultado = recalcularProjecaoSKU(cadastro, meses, DemandaComZeros, pedidosManuais,
                                          dataReferencia)

\* a bad demand value in a month the forward lookahead of an earlier order
\* walks through, with an override in place
C10Witness ==
    /\ fase = "calculado"
    /\ \E i, k \in Indices :
        /\ i < k
        /\ ChegadaDe(i) >= k
        /\ SemManual(i)
        /\ Lookup(sellOutPorMes, Mes(meses, k)).t # "number"
    /\ \E i \in Indices : ComManual(i)
    /\ \E i \in Indices : Lookup(sellOutPorMes, Mes(meses, i)).t = "string"

\* ------------------------------------------------------------------------
\* Weekly distribution
\* ------------------------------------------------------------------------
RECURSIVE SomaValores(_, _)
\* the sum of the numbers valores[k] for k in idx
SomaValores(valores, idx) ==
    IF idx = {} THEN 0
    ELSE LET k == CHOOSE x \in idx : TRUE
         IN valores[k] + SomaValores(valores, idx \ {k})

\* the values of a distribuirPedidoMultiMes result
ValoresDe(distribuicao) == [k \in 1..Len(distribuicao) |-> distribuicao[k].valor]

\* the month keys the blocks of the call are grouped under
GruposDaChamada == {IF Len(dist.semanas[k].mesChegada) > 0 THEN dist.semanas[k].mesChegada ELSE dist.mesAtual :
                        k \in 1..Len(dist.semanas)}

BlocosDoGrupo(g) ==
    {k \in 1..Len(dist.semanas) :
        (IF Len(dist.semanas[k].mesChegada) > 0 THEN dist.semanas[k].mesChegada ELSE dist.mesAtual) = g}

TotalDoGrupo(g) == IF g \in DOMAIN dist.pedidoPorMes THEN dist.pedidoPorMes[g].v ELSE 0

BlocosElegiveis == {k \in 1..Len(dist.semanas) : dist.semanas[k].elegivel # "false"}

SomaGruposExata ==
    \A g \in GruposDaChamada :
        SomaValores(ValoresDe(dist.valores), BlocosDoGrupo(g)) = TotalDoGrupo(g)

\* C5 as stated: whatever the total and the block list, the values returned by
\* distribuirPedidoSimples and distribuirPedidoPorSemanas sum to the monthly
\* total, and those of each arrival-month group of distribuirPedidoMultiMes
\* sum to that month's total.
C5ComoAfirmado ==
    /\ dist.funcao \in {"distribuirPedidoSimples", "distribuirPedidoPorSemanas"} =>
          SomaValores(dist.valores, 1..Len(dist.valores)) = dist.pedidoMensal
    /\ dist.funcao = "distribuirPedidoMultiMes" => SomaGruposExata

\* C5 (amended): the values sum exactly to the monthly total whenever some
\* block takes part: a non-empty list for distribuirPedidoSimples, at least
\* one eligible block for distribuirPedidoPorSemanas, every arrival-month
\* group for distribuirPedidoMultiMes. With an empty list the result is
\* empty, and with no eligible block every value is 0.
C5RoundTrip ==
    /\ dist.funcao # "nenhuma" /\ dist.funcao # "entrada" => Len(dist.valores) = Len(dist.semanas)
    /\ dist.funcao = "distribuirPedidoSimples" /\ Len(dist.semanas) > 0 =>
          SomaValores(dist.valores, 1..Len(dist.valores)) = dist.pedidoMensal
    /\ dist.funcao = "distribuirPedidoPorSemanas" /\ BlocosElegiveis # {} =>
          /\ SomaValores(dist.valores, 1..Len(dist.valores)) = dist.pedidoMensal
          /\ \A k \in 1..Len(dist.semanas) : k \notin BlocosElegiveis => dist.valores[k] = 0
    /\ dist.funcao = "distribuirPedidoPorSemanas" /\ BlocosElegiveis = {} =>
          \A k \in 1..Len(dist.valores) : dist.valores[k] = 0
    /\ dist.funcao = "distribuirPedidoMultiMes" => SomaGruposExata

\* a call where an ineligible block got 0 and the last eligible block took a
\* value other than its own rounded share
C5Witness ==
    /\ dist.funcao = "distribuirPedidoPorSemanas"
    /\ dist.pedidoMensal > 0
    /\ BlocosElegiveis # {}
    /\ \E k \in 1..Len(dist.semanas) : k \notin BlocosElegiveis
    /\ LET ultimo == CHOOSE k \in BlocosElegiveis : \A x \in BlocosElegiveis : x <= k
           diasElegiveis == SomaDiasSemanas(dist.semanas, BlocosElegiveis)
       IN /\ Cardinality(BlocosElegiveis) > 1
          /\ dist.valores[ultimo] # (2 * dist.pedidoMensal * dist.semanas[ultimo].dias + diasElegiveis)
                                        \div (2 * diasElegiveis)
          /\ SomaValores(dist.valores, 1..Len(dist.valores)) = dist.pedidoMensal

\* ------------------------------------------------------------------------
\* Coverage
\* ------------------------------------------------------------------------
\* C6: the coverage order is never below the normal order of the first month
\* and the anticipated total is never negative.
C6Monotonia ==
    cob.chamada = "calcularCoberturaPorData" =>
        /\ cob.retorno.pedidoCobertura >= cob.retorno.pedidoNormalMes1
        /\ cob.retorno.totalAntecipado >= 0

\* a call that anticipated part of a month whose last week block carries a
\* negative rounding remainder, cut inside that block
C6Witness ==
    /\ cob.chamada = "calcularCoberturaPorData"
    /\ cob.retorno.totalAntecipado > 0
    /\ \E k \in 1..Len(cob.retorno.detalheMeses) :
          LET d == cob.retorno.detalheMeses[k]
          IN /\ d.diasAntecipados < d.diasNoMes
             /\ d.diasAntecipados > 28
             /\ d.valorAntecipado > d.pedidoNormal

\* ------------------------------------------------------------------------
\* Objective stock and overrides
\* ------------------------------------------------------------------------
\* C8, engine part: a recompute of the same SKU, horizon and demand under
\* another override map leaves ESTOQUE_OBJETIVO of every month as it was.
C8NoMotor ==
    [][fase = "calculado" =>
          \A mes \in Chaves(meses) : resultado'[mes].ESTOQUE_OBJETIVO = resultado[mes].ESTOQUE_OBJETIVO]_vars

\* C8: ESTOQUE_OBJETIVO of every month of every SKU in the series the hook
\* exposes is the one of the series loaded before any edit, whatever the
\* override map holds.
C8ObjetivoIndependente ==
    dados.carregado =>
        \A k \in 1..Len(projecoesComEdicoes) :
            \A mes \in Chaves(dados.metadata.meses) :
                projecoesComEdicoes[k].meses[mes].ESTOQUE_OBJETIVO = dados.projecao[k].meses[mes].ESTOQUE_OBJETIVO

\* ------------------------------------------------------------------------
\* C11: a month key of any other form than YYYY_MM makes parseMesAno fail,
\* and a recompute over a horizon holding such a key is aborted with an
\* error instead of returning a series
\* ------------------------------------------------------------------------
\* exactly four digits, an underscore, two digits
ChaveBemFormada(k) ==
    /\ Len(k) = 7
    /\ \A i \in {1, 2, 3, 4, 6, 7} : IsDigit(k[i])
    /\ k[5] = "_"

C11FalhaRapido ==
    /\ (util.funcao = "parseMesAno" /\ ~ChaveBemFormada(util.mesAno)) => util.lancou
    /\ (util.funcao = "recalcularProjecaoSKU"
            /\ \E k \in 1..Len(util.meses) : ~ChaveBemFormada(util.meses[k])) => util.lancou

\* ------------------------------------------------------------------------
\* C12: the arrival index of calcularIndiceMesChegada
\* ------------------------------------------------------------------------
\* the call of calcularIndiceMesChegada has returned
ChegadaCalculada == util.funcao = "calcularIndiceMesChegada"

\* order date + lead time
DataDeChegada == SomaDias(DataPedido(util.indiceMesPedido, util.meses, util.dataReferencia), util.ltDias)

\* the arrival month is not a key of the horizon
ChegadaForaDoHorizonte == IndexOf(util.meses, ChaveMes(DataDeChegada.ano, DataDeChegada.mes)) = -1

UltimoIndice == Len(util.meses) - 1

\* the order is placed inside the month it belongs to
PedidoNoSeuMes ==
    LET d == DataPedido(util.indiceMesPedido, util.meses, util.dataReferencia)
        m == parseMesAno(Mes(util.meses, util.indiceMesPedido))
    IN d.ano = m.ano.v /\ d.mes = m.mes.v

\* the arrival falls after the last month of the horizon
ChegadaDepoisDoHorizonte ==
    LET m == parseMesAno(Mes(util.meses, UltimoIndice))
    IN ~DataLE(DataDeChegada, [ano |-> m.ano.v, mes |-> m.mes.v, dia |-> diasNoMes(m.ano.v, m.mes.v)])

\* C12 as stated: an arrival month outside the horizon always gives the last
\* index, and the index always lies between the order index and the last index
C12ComoAfirmado ==
    ChegadaCalculada =>
        /\ ~util.lancou
        /\ ChegadaForaDoHorizonte => util.retorno = UltimoIndice
        /\ util.indiceMesPedido <= util.retorno /\ util.retorno <= UltimoIndice

\* C12 amended: an arrival month outside the horizon gives the order index
\* plus ceil(lead time / 30), capped at the last index, which is the last
\* index whenever the order is placed inside its own month and arrives after
\* the horizon; an arrival month inside the horizon gives its position; the
\* index always lies between the order index and the last index and the
\* call never fails
C12Limite ==
    ChegadaCalculada =>
        /\ ~util.lancou
        /\ ChegadaForaDoHorizonte =>
              util.retorno = Min(util.indiceMesPedido + CeilDiv(util.ltDias, 30), UltimoIndice)
        /\ (PedidoNoSeuMes /\ ChegadaDepoisDoHorizonte) => util.retorno = UltimoIndice
        /\ ~ChegadaForaDoHorizonte =>
              Mes(util.meses, util.retorno) = ChaveMes(DataDeChegada.ano, DataDeChegada.mes)
        /\ util.indiceMesPedido <= util.retorno /\ util.retorno <= UltimoIndice

\* an order of the first month whose lead time ends after the horizon: the
\* cap applies and the last index is returned
C12Witness ==
    /\ ChegadaCalculada
    /\ util.indiceMesPedido = 0
    /\ PedidoNoSeuMes /\ ChegadaDepoisDoHorizonte
    /\ util.indiceMesPedido + CeilDiv(util.ltDias, 30) > UltimoIndice
    /\ util.retorno = UltimoIndice

\* ------------------------------------------------------------------------
\* C13: a SKU with a series but no registry entry is absent from the loaded
\* list, the overrides-applied list, the filtered list and the CSV, and the
\* other SKUs of the bundle are still computed
\* ------------------------------------------------------------------------
ChavesDe(lista) == {lista[k].CHAVE : k \in 1..Len(lista)}

\* the SKUs served with a series and without a registry entry
SemCadastro == ChavesDe(sampleData.projecao) \ ChavesDe(sampleData.cadastro)

\* the series the engine gives a registered SKU at load time
SerieCalculada(proj) ==
    recalcularProjecaoSKU(CadastroMap(sampleData.cadastro)[proj.CHAVE], sampleData.metadata.meses,
                          SellOutDoJson(proj, sampleData.metadata.meses),
                          [mes \in Chaves(sampleData.metadata.meses) |-> Null], DataDeHoje(hoje))

\* every registered SKU of the bundle is in the loaded list with its computed series
OutrosCalculados ==
    \A k \in 1..Len(sampleData.projecao) :
        sampleData.projecao[k].CHAVE \notin SemCadastro =>
            \E j \in 1..Len(dados.projecao) :
                /\ dados.projecao[j].CHAVE = sampleData.projecao[k].CHAVE
                /\ dados.projecao[j].meses = SerieCalculada(sampleData.projecao[k])

C13Ausente ==
    dados.carregado =>
        /\ SemCadastro \cap ChavesDe(dados.projecao) = {}
        /\ SemCadastro \cap ChavesDe(projecoesComEdicoes) = {}
        /\ SemCadastro \cap ChavesDe(dadosFiltrados) = {}
        /\ csv.botao # "nenhum" => SemCadastro \cap ChavesDe(csv.linhas) = {}
        /\ OutrosCalculados

\* what the code does keep: the filtered list and the CSV leave the SKU out
\* and the registered SKUs are computed
C13FiltradoEExportado ==
    dados.carregado =>
        /\ SemCadastro \cap ChavesDe(dadosFiltrados) = {}
        /\ csv.botao # "nenhum" => SemCadastro \cap ChavesDe(csv.linhas) = {}
        /\ OutrosCalculados

\* ------------------------------------------------------------------------
\* C14: with a non-empty override map, each export button writes the
\* overrides-applied series
\* ------------------------------------------------------------------------
C14ExportaAtual ==
    (csv.botao # "nenhum" /\ DOMAIN editedCells # {}) =>
        csv.linhas = LinhasCSV(projecoesComEdicoes, CadastroMap(dados.cadastro), dados.metadata.meses)

\* the header button alone does so
C14Cabecalho ==
    (csv.botao = "cabecalho" /\ DOMAIN editedCells # {}) =>
        csv.linhas = LinhasCSV(projecoesComEdicoes, CadastroMap(dados.cadastro), dados.metadata.meses)

\* ------------------------------------------------------------------------
\* C15: the edit/undo surface of the hook
\* ------------------------------------------------------------------------
Celulas == {ChaveCelula(chave, mes) : chave \in ChavesSKU, mes \in Chaves(Horizonte)}

\* every cell but this one is edited after the step iff it was before, with
\* the same value
OutrasCelulasIguais(celula) ==
    \A c \in Celulas \ {celula} :
        /\ (c \in DOMAIN editedCells') <=> (c \in DOMAIN editedCells)
        /\ c \in DOMAIN editedCells => editedCells'[c] = editedCells[c]

\* C15: after editarPedido the cell is edited and holds the typed value; after
\* desfazerEdicao the cell is not edited; either leaves every other cell as
\* it was; after limparEdicoes no cell is edited; totalEdicoes follows: it
\* grows by one for a cell that was not edited, shrinks by one on an undo and
\* is 0 after a clear. Hence a cell is edited exactly when the last operation
\* on it was an editarPedido with no limparEdicoes after it, and it holds the
\* value of that editarPedido.
C15Superficie ==
    [][ /\ \A chave \in ChavesSKU, mes \in Chaves(Horizonte), valor \in ValoresDigitados :
              editarPedido(chave, mes, valor) =>
                  /\ isCellEdited(chave, mes)'
                  /\ editedCells'[ChaveCelula(chave, mes)] = valor
                  /\ OutrasCelulasIguais(ChaveCelula(chave, mes))
                  /\ totalEdicoes' = totalEdicoes + (IF isCellEdited(chave, mes) THEN 0 ELSE 1)
        /\ \A chave \in ChavesSKU, mes \in Chaves(Horizonte) :
              desfazerEdicao(chave, mes) =>
                  /\ ~isCellEdited(chave, mes)'
                  /\ OutrasCelulasIguais(ChaveCelula(chave, mes))
                  /\ totalEdicoes' = totalEdicoes - 1
        /\ limparEdicoes =>
              /\ \A chave \in ChavesSKU, mes \in Chaves(Horizonte) : ~isCellEdited(chave, mes)'
              /\ totalEdicoes' = 0
        /\ totalEdicoes' = Cardinality({c \in Celulas : c \in DOMAIN editedCells'})
      ]_vars

\* two cells of different SKUs are edited, each with the value typed into it
C15Witness ==
    /\ totalEdicoes = 2
    /\ isCellEdited(<<"A">>, Horizonte[1]) /\ editedCells[ChaveCelula(<<"A">>, Horizonte[1])] = Inteiro(25)
    /\ isCellEdited(<<"B">>, Horizonte[2]) /\ editedCells[ChaveCelula(<<"B">>, Horizonte[2])] = Inteiro(0)
    /\ ~isCellEdited(<<"A">>, Horizonte[2])

\* ------------------------------------------------------------------------
\* C16: the overrides of one SKU touch the series of that SKU only
\* ------------------------------------------------------------------------
\* the SKU has no override in the map
SemEdicao(chave, celulas) ==
    \A mes \in Chaves(dados.metadata.meses) : ChaveCelula(chave, mes) \notin DOMAIN celulas

\* C16: in every step taken once the bundle is loaded, a SKU whose own cells
\* are the same before and after keeps its series, and a SKU with no override
\* carries the series computed at load time
C16PorSKU ==
    [][ dados.carregado =>
          \A k \in 1..Len(dados.projecao) :
              /\ EdicoesDoSKU(dados.projecao[k].CHAVE, dados.metadata.meses, editedCells')
                    = EdicoesDoSKU(dados.projecao[k].CHAVE, dados.metadata.meses, editedCells)
                 => projecoesComEdicoes'[k] = projecoesComEdicoes[k]
              /\ SemEdicao(dados.projecao[k].CHAVE, editedCells')
                 => projecoesComEdicoes'[k] = dados.projecao[k]
      ]_vars

\* SKU A is edited and its series differs from the loaded one, SKU B is not
\* edited and carries the loaded one
C16Witness ==
    /\ dados.carregado
    /\ ~SemEdicao(<<"A">>, editedCells) /\ SemEdicao(<<"B">>, editedCells)
    /\ projecoesComEdicoes[1].CHAVE = <<"A">> /\ projecoesComEdicoes[1] # dados.projecao[1]
    /\ projecoesComEdicoes[2].CHAVE = <<"B">> /\ projecoesComEdicoes[2] = dados.projecao[2]

\* ------------------------------------------------------------------------
\* C17: persisted overrides are scoped to the month of the clock
\* ------------------------------------------------------------------------
\* C17 as stated: the map a session loaded at its start holds no override
\* typed in a month other than the month the session started in, and a
\* session started in the month of the last write loaded exactly the map
\* last written
C17EscopoDoMes ==
    /\ \A c \in DOMAIN historia.carga.mapa : historia.carga.digitadoEm[c] = historia.carga.mes
    /\ historia.carga.ultimoPersistido.mes = historia.carga.mes
          => historia.carga.mapa = historia.carga.ultimoPersistido.mapa

\* what holds: a session started in the month of the last write loaded
\* exactly the map last written, and a session started in a month with no
\* write loaded the empty map
C17MesmoMes ==
    /\ historia.carga.ultimoPersistido.mes = historia.carga.mes
          => historia.carga.mapa = historia.carga.ultimoPersistido.mapa
    /\ historia.carga.ultimoPersistido.mes # historia.carga.mes => historia.carga.mapa = << >>

\* a session started in the month of the last write and loaded a map with a cell
C17MesmoMesWitness ==
    /\ historia.carga.ultimoPersistido.mes = historia.carga.mes
    /\ historia.carga.mapa # << >>

\* ------------------------------------------------------------------------
\* C18: an approval request changes in its status only
\* ------------------------------------------------------------------------
\* the fields of a request other than status
CamposFixos(p) == [f \in DOMAIN p \ {"status"} |-> p[f]]

\* C18: atualizarStatus(id, s) keeps the length and the order of the list,
\* gives status s to each request with that id and changes no other field of
\* it, and leaves every other request as it was; adicionarPedido puts the new
\* request, with status 'pendente', in front of the unchanged list
C18SoStatus ==
    [][ /\ \A instante \in Instantes, novoStatus \in {"aprovado", "rejeitado"} :
              atualizarStatus(ToStr(instante), novoStatus) =>
                  /\ Len(pedidos') = Len(pedidos)
                  /\ \A k \in 1..Len(pedidos) :
                        /\ CamposFixos(pedidos'[k]) = CamposFixos(pedidos[k])
                        /\ pedidos[k].id = ToStr(instante) => pedidos'[k].status = novoStatus
                        /\ pedidos[k].id # ToStr(instante) => pedidos'[k].status = pedidos[k].status
        /\ \A pedido \in NovosPedidos :
              adicionarPedido(pedido) =>
                  /\ Len(pedidos') = Len(pedidos) + 1
                  /\ pedidos'[1] = pedido /\ pedidos'[1].status = "pendente"
                  /\ \A k \in 1..Len(pedidos) : pedidos'[k + 1] = pedidos[k]
      ]_vars

\* a newer request is pending in front of an older one that was approved
C18Witness ==
    /\ Len(pedidos) = 2
    /\ pedidos[1].id = ToStr(2) /\ pedidos[1].status = "pendente"
    /\ pedidos[2].id = ToStr(1) /\ pedidos[2].status = "aprovado"
    /\ pedidos[2].totalQuantidade = 20

\* ------------------------------------------------------------------------
\* C19: the week blocks cover the rest of the month
\* ------------------------------------------------------------------------
RotulosDosBlocos == <<"S1", "S2", "S3", "S4", "S5">>

\* the position of a label among S1..S5
OrdemDoBloco(label) == CHOOSE n \in 1..Len(RotulosDosBlocos) : RotulosDosBlocos[n] = label

WeekBlocksCalculados == util.funcao = "calcularSemanasRestantes"

\* the fixed blocks that the call has to return: those that do not end before
\* diaReferencia, S5 only in a month of more than 28 days
BlocosEsperados ==
    {n \in 1..Len(RotulosDosBlocos) :
        /\ n = 5 => diasNoMes(util.ano, util.mes) > 28
        /\ (IF n = 5 THEN diasNoMes(util.ano, util.mes) ELSE 7 * n) >= util.diaReferencia}

\* C19: for every month and every diaReferencia in 1..diasNoMes,
\* calcularSemanasRestantes returns blocks in the order S1..S5, each within
\* its fixed 7-day block, disjoint and contiguous, the first starting at
\* diaReferencia and the last ending at diasNoMes, each with
\* dias = fim - inicio + 1 >= 1, so that the day counts sum to
\* diasNoMes - diaReferencia + 1; the blocks that end before diaReferencia are
\* absent and S5 is present only in a month of more than 28 days
C19CobreOResto ==
    WeekBlocksCalculados =>
        /\ Len(util.retorno) >= 1
        /\ util.retorno[1].inicio = util.diaReferencia
        /\ util.retorno[Len(util.retorno)].fim = diasNoMes(util.ano, util.mes)
        /\ \A k \in 1..Len(util.retorno) :
              /\ util.retorno[k].label \in {RotulosDosBlocos[n] : n \in 1..Len(RotulosDosBlocos)}
              /\ util.retorno[k].dias = util.retorno[k].fim - util.retorno[k].inicio + 1
              /\ util.retorno[k].dias >= 1
              /\ util.retorno[k].inicio >= 7 * (OrdemDoBloco(util.retorno[k].label) - 1) + 1
              /\ OrdemDoBloco(util.retorno[k].label) < 5 =>
                    util.retorno[k].fim = 7 * OrdemDoBloco(util.retorno[k].label)
        /\ \A k \in 1..(Len(util.retorno) - 1) :
              /\ util.retorno[k + 1].inicio = util.retorno[k].fim + 1
              /\ OrdemDoBloco(util.retorno[k + 1].label) = OrdemDoBloco(util.retorno[k].label) + 1
        /\ SomaDiasSemanas(util.retorno, 1..Len(util.retorno))
              = diasNoMes(util.ano, util.mes) - util.diaReferencia + 1
        /\ {OrdemDoBloco(util.retorno[k].label) : k \in 1..Len(util.retorno)} = BlocosEsperados

\* a call in the middle of the second block of a 31-day month: S1 is absent,
\* S2 starts at the reference day, S5 has the days 29 to 31
C19Witness ==
    /\ WeekBlocksCalculados
    /\ diasNoMes(util.ano, util.mes) = 31
    /\ util.diaReferencia = 10
    /\ Len(util.retorno) = 4
    /\ util.retorno[1].label = "S2" /\ util.retorno[1].inicio = 10 /\ util.retorno[1].dias = 5
    /\ util.retorno[4].label = "S5" /\ util.retorno[4].dias = 3

\* ------------------------------------------------------------------------
\* C20: the distribution over the eligible blocks
\* ------------------------------------------------------------------------
PorSemanasCalculado == dist.funcao = "distribuirPedidoPorSemanas"

DiasElegiveisDaChamada == SomaDiasSemanas(dist.semanas, BlocosElegiveis)

UltimoElegivel == CHOOSE k \in BlocosElegiveis : \A x \in BlocosElegiveis : x <= k

\* the eligible blocks other than the last eligible one
OutrosElegiveis == IF BlocosElegiveis = {} THEN {} ELSE BlocosElegiveis \ {UltimoElegivel}

\* round(total * dias / sum of eligible days) on exact numbers, halves up
ParteArredondada(k) ==
    (2 * dist.pedidoMensal * dist.semanas[k].dias + DiasElegiveisDaChamada) \div (2 * DiasElegiveisDaChamada)

\* every ineligible block has 0, the last eligible block has the total less
\* the other values, and with no eligible day every block has 0
ZerosERestante ==
    /\ Len(dist.valores) = Len(dist.semanas)
    /\ \A k \in 1..Len(dist.semanas) : k \notin BlocosElegiveis => dist.valores[k] = 0
    /\ BlocosElegiveis # {} =>
          dist.valores[UltimoElegivel]
              = dist.pedidoMensal - SomaValores(dist.valores, OutrosElegiveis)
    /\ DiasElegiveisDaChamada = 0 => \A k \in 1..Len(dist.valores) : dist.valores[k] = 0

\* C20 as stated: in the result of distribuirPedidoPorSemanas every block
\* with elegivel === false has exactly 0, every eligible block other than the
\* last eligible one has round(total * dias / sum of eligible days), the last
\* eligible block has the remainder, and when the eligible days sum to zero
\* every block has 0
C20ComoAfirmado ==
    PorSemanasCalculado =>
        /\ ZerosERestante
        /\ \A k \in OutrosElegiveis : dist.valores[k] = ParteArredondada(k)

\* C20 (what the code keeps): the zeros and the remainder are as stated, and
\* the value of every other eligible block is within one half of
\* total * dias / sum of eligible days
C20MeioDeDistancia ==
    PorSemanasCalculado =>
        /\ ZerosERestante
        /\ \A k \in OutrosElegiveis :
              /\ 2 * (dist.valores[k] * DiasElegiveisDaChamada - dist.pedidoMensal * dist.semanas[k].dias)
                    <= DiasElegiveisDaChamada
              /\ 2 * (dist.pedidoMensal * dist.semanas[k].dias - dist.valores[k] * DiasElegiveisDaChamada)
                    <= DiasElegiveisDaChamada

\* the call whose first share is the exact half 31.5
C20Empate ==
    /\ PorSemanasCalculado
    /\ dist.pedidoMensal = 45
    /\ Len(dist.semanas) = 2
    /\ dist.semanas[1].dias = 7 /\ dist.semanas[2].dias = 3
    /\ BlocosElegiveis = {1, 2}
    /\ dist.valores = <<31, 14>>

\* ------------------------------------------------------------------------
\* C21: coverage with nothing to anticipate
\* ------------------------------------------------------------------------
CoberturaCalculada == cob.chamada = "calcularCoberturaPorData"

\* the first month of the horizon of the call
PrimeiroMes == parseMesAno(Mes(meses, 0))

DiasDoPrimeiroMes == diasNoMes(PrimeiroMes.ano.v, PrimeiroMes.mes.v)

\* N: the whole days from the reference date to the coverage date
DiasPedidos == DiaAbsoluto(cob.dataCobertura) - DiaAbsoluto(cob.dataReferencia)

CoberturaNoPrimeiroMes ==
    cob.dataCobertura.ano = PrimeiroMes.ano.v /\ cob.dataCobertura.mes = PrimeiroMes.mes.v

\* the days consumed in the current month, as the claim counts them
ConsumoNoPrimeiroMes ==
    IF CoberturaNoPrimeiroMes
    THEN Min(DiasPedidos, DiasDoPrimeiroMes - cob.dataCobertura.dia)
    ELSE DiasDoPrimeiroMes - cob.dataReferencia.dia

\* C21: whenever N is at most the days consumed in the current month (the
\* lesser of N and the days after the coverage date up to the month end when
\* the coverage date is in the current month, every remaining day of the
\* current month otherwise) the result touches no future month:
\* detalheMeses and mesesAjustados are empty, totalAntecipado is 0 and
\* pedidoCobertura is pedidoNormalMes1
C21NadaAAntecipar ==
    CoberturaCalculada /\ DiasPedidos <= ConsumoNoPrimeiroMes =>
        /\ cob.retorno.detalheMeses = << >>
        /\ cob.retorno.mesesAjustados = << >>
        /\ cob.retorno.totalAntecipado = 0
        /\ cob.retorno.pedidoCobertura = cob.retorno.pedidoNormalMes1

\* a coverage of 12 days inside the current month, with 17 days after the
\* coverage date, for a SKU whose first month has an order
C21Witness ==
    /\ CoberturaCalculada
    /\ CoberturaNoPrimeiroMes
    /\ DiasPedidos = 12
    /\ ConsumoNoPrimeiroMes = 12
    /\ cob.retorno.pedidoNormalMes1 > 0
    /\ cob.retorno.detalheMeses = << >>
    /\ cob.retorno.pedidoCobertura = cob.retorno.pedidoNormalMes1

\* ------------------------------------------------------------------------
\* C22: the days anticipated from the future months
\* ------------------------------------------------------------------------
\* the days to anticipate: N less the days consumed in the current month
DiasAAntecipar == Max(0, DiasPedidos - ConsumoNoPrimeiroMes)

RECURSIVE DiasDosMeses(_)
\* the day counts of the months of a list of month keys, added up
DiasDosMeses(chaves) ==
    IF Len(chaves) = 0 THEN 0
    ELSE diasNoMes(parseMesAno(Head(chaves)).ano.v, parseMesAno(Head(chaves)).mes.v) + DiasDosMeses(Tail(chaves))

RECURSIVE SomaDiasAntecipados(_)
SomaDiasAntecipados(detalhes) ==
    IF Len(detalhes) = 0 THEN 0 ELSE Head(detalhes).diasAntecipados + SomaDiasAntecipados(Tail(detalhes))

\* C22: when there are days to anticipate the touched months are the months
\* of the horizon from the second one on, in order and without a gap; their
\* diasAntecipados sum to the lesser of the days to anticipate and the days
\* of all months after the first; every touched month but the last is fully
\* consumed (diasAntecipados = its day count, proporcaoAntecipada = 1,
\* valorMantido = 0); proporcaoAntecipada never exceeds 1
C22ConsumoDeDias ==
    CoberturaCalculada /\ DiasAAntecipar > 0 =>
        /\ Len(cob.retorno.detalheMeses) >= 1
        /\ Len(cob.retorno.detalheMeses) <= Len(meses) - 1
        /\ \A k \in 1..Len(cob.retorno.detalheMeses) :
              /\ cob.retorno.detalheMeses[k].mes = Mes(meses, k)
              /\ cob.retorno.detalheMeses[k].diasNoMes = DiasDosMeses(<<Mes(meses, k)>>)
              /\ cob.retorno.detalheMeses[k].proporcaoAntecipada.num
                    <= cob.retorno.detalheMeses[k].proporcaoAntecipada.den
              /\ k < Len(cob.retorno.detalheMeses) =>
                    /\ cob.retorno.detalheMeses[k].diasAntecipados = cob.retorno.detalheMeses[k].diasNoMes
                    /\ cob.retorno.detalheMeses[k].proporcaoAntecipada = [num |-> 1, den |-> 1]
                    /\ cob.retorno.detalheMeses[k].valorMantido = 0
        /\ SomaDiasAntecipados(cob.retorno.detalheMeses) = Min(DiasAAntecipar, DiasDosMeses(Tail(meses)))

\* a coverage date in the third month: the second month is consumed whole and
\* the third in part, and both have an order
C22Witness ==
    /\ CoberturaCalculada
    /\ DiasAAntecipar > DiasDosMeses(<<Mes(meses, 1)>>)
    /\ DiasAAntecipar < DiasDosMeses(Tail(meses))
    /\ Len(cob.retorno.detalheMeses) = 2
    /\ cob.retorno.detalheMeses[1].pedidoNormal > 0
    /\ cob.retorno.detalheMeses[1].valorMantido = 0
    /\ cob.retorno.detalheMeses[2].pedidoNormal > 0
    /\ cob.retorno.detalheMeses[2].diasAntecipados < cob.retorno.detalheMeses[2].diasNoMes

\* ------------------------------------------------------------------------
\* C23: applying a coverage writes, for every SKU with something to
\* anticipate, the coverage order as the override of the first month and the
\* amount kept as the override of every touched month, the recomputed series
\* shows those orders in those months, and every other override is left as
\* it was.
\* ------------------------------------------------------------------------
\* the override of a cell is the same before and after the step
C23MesmaCelula(celula) ==
    /\ (celula \in DOMAIN editedCells') = (celula \in DOMAIN editedCells)
    /\ celula \in DOMAIN editedCells => editedCells'[celula] = editedCells[celula]

\* the months a coverage result touches
C23MesesTocados(r) == { r.resultado.detalheMeses[k].mes : k \in 1..Len(r.resultado.detalheMeses) }

\* a cell of the map belongs to a SKU
C23CelulaDoSKU(celula, chave) ==
    /\ Len(celula) > Len(chave)
    /\ SubSeq(celula, 1, Len(chave) + 1) = chave \o <<"|">>

\* the override written and shown for a month
C23Escrito(chave, mes, valor) ==
    /\ ChaveCelula(chave, mes) \in DOMAIN editedCells'
    /\ editedCells'[ChaveCelula(chave, mes)] = Inteiro(valor)
    /\ LinhaDe(projecoesComEdicoes', chave).meses[mes].PEDIDO = valor

C23Depois(resultados) ==
    \A k \in 1..Len(resultados) :
        IF resultados[k].resultado.totalAntecipado > 0
        THEN /\ C23Escrito(resultados[k].chave, Mes(dados.metadata.meses, 0),
                           resultados[k].resultado.pedidoCobertura)
             /\ \A d \in 1..Len(resultados[k].resultado.detalheMeses) :
                    C23Escrito(resultados[k].chave, resultados[k].resultado.detalheMeses[d].mes,
                               resultados[k].resultado.detalheMeses[d].valorMantido)
             /\ \A celula \in DOMAIN editedCells \cup DOMAIN editedCells' :
                    (/\ C23CelulaDoSKU(celula, resultados[k].chave)
                     /\ celula # ChaveCelula(resultados[k].chave, Mes(dados.metadata.meses, 0))
                     /\ \A m \in C23MesesTocados(resultados[k]) : celula # ChaveCelula(resultados[k].chave, m))
                    => C23MesmaCelula(celula)
        ELSE \A celula \in DOMAIN editedCells \cup DOMAIN editedCells' :
                C23CelulaDoSKU(celula, resultados[k].chave) => C23MesmaCelula(celula)

C23AplicaCobertura ==
    [][\A dataCobertura \in DatasDoPainel :
          handleAplicar(dataCobertura) => C23Depois(Resultados(dadosFiltrados, dados, dataCobertura))]_vars

\* a coverage was applied next to a typed week: SKU A holds the override of its
\* first month and of a later month, SKU B, with nothing to anticipate, still
\* holds the total of its typed weeks
C23Witness ==
    /\ dados.carregado
    /\ <<"A">> \in DOMAIN coverageWeeklyEdits
    /\ isCellEdited(<<"A">>, Mes(Horizonte, 0))
    /\ \E mes \in Chaves(Horizonte) \ {Mes(Horizonte, 0)} : isCellEdited(<<"A">>, mes)
    /\ <<"B">> \in DOMAIN weeklyEdits
    /\ <<"B">> \notin DOMAIN coverageWeeklyEdits
    /\ isCellEdited(<<"B">>, Mes(Horizonte, 0))
    /\ editedCells[ChaveCelula(<<"B">>, Mes(Horizonte, 0))] = Inteiro(25)

\* ------------------------------------------------------------------------
\* C25: for every row, the week values shown and sent for approval (typed
\* ones, else those of a coverage, else the proportional distribution) sum
\* to the PEDIDO of the first month of the series with the overrides applied.
\* ------------------------------------------------------------------------
C25SomaDaLinha(chave) == SomaLista(SemanasDaLinha(chave))

C25PedidoDaLinha(chave) == PedidoMes1(LinhaDe(dadosFiltrados, chave).meses, Mes(dados.metadata.meses, 0))

C25SemanasSomamOPedido ==
    (dados.carregado /\ Len(semanasInfo(dados)) > 0) =>
        \A k \in 1..Len(dadosFiltrados) :
            C25SomaDaLinha(dadosFiltrados[k].CHAVE) = C25PedidoDaLinha(dadosFiltrados[k].CHAVE)

\* the sum holds while no coverage was applied: typed weeks, undos and
\* clear-all keep the week values and the override of the first month together
C25SemCobertura ==
    (dados.carregado /\ Len(semanasInfo(dados)) > 0 /\ DOMAIN coverageWeeklyEdits = {}
        /\ \A celula \in DOMAIN editedCells : \E chave \in DOMAIN weeklyEdits :
               celula = ChaveCelula(chave, Mes(dados.metadata.meses, 0))) =>
        \A k \in 1..Len(dadosFiltrados) :
            C25SomaDaLinha(dadosFiltrados[k].CHAVE) = C25PedidoDaLinha(dadosFiltrados[k].CHAVE)

\* ------------------------------------------------------------------------
\* C24: the cache is keyed by month. A call returns the cached bundle only
\* when it was cached under the month the call is made in; any other call
\* fetches and recomputes for its own day; while no load has ended well
\* nothing is cached; and no call ever returns the bundle of a failed load or
\* of a load of another month.
\* ------------------------------------------------------------------------
\* the month of the day a bundle was computed for
C24MesDoBundle(bundle) == SubSeq(bundle.metadata.data_referencia, 1, 7)

\* the calls whose fetch ended well
C24Carregadas == { i \in 1..Len(chamadas) : chamadas[i].fase = "retornou" /\ ~chamadas[i].doCache }

C24CachePorMes ==
    /\ cachedData.t # "null" =>
          /\ cachedRefMonth.t = "texto"
          /\ C24MesDoBundle(cachedData.v) = cachedRefMonth.v
          /\ \E i \in C24Carregadas : chamadas[i].retorno = cachedData.v
    /\ C24Carregadas = {} => cachedData.t = "null"
    /\ \A i \in 1..Len(chamadas) :
          chamadas[i].fase = "retornou" =>
              /\ C24MesDoBundle(chamadas[i].retorno) = chamadas[i].refMonth
              /\ chamadas[i].doCache =>
                    \E j \in C24Carregadas :
                        /\ j < i
                        /\ chamadas[j].refMonth = chamadas[i].refMonth
                        /\ chamadas[j].retorno = chamadas[i].retorno
              /\ ~chamadas[i].doCache =>
                    chamadas[i].retorno = obterProjecaoInicial(sampleData, chamadas[i].hoje)

\* a bundle was loaded in one month, a call of a later month fetched again,
\* and the call after it was served the bundle of that later month
C24Witness ==
    /\ Len(chamadas) = 3
    /\ chamadas[1].fase = "retornou" /\ ~chamadas[1].doCache
    /\ chamadas[2].fase = "retornou" /\ ~chamadas[2].doCache
    /\ chamadas[2].refMonth # chamadas[1].refMonth
    /\ chamadas[3].doCache
    /\ chamadas[3].refMonth = chamadas[2].refMonth
    /\ chamadas[3].retorno # chamadas[1].retorno

\* ------------------------------------------------------------------------
\* C26: in every touched month of a coverage result whose normal order is
\* not negative, the amount anticipated and the amount kept are both between
\* 0 and the normal order of the month.
\* ------------------------------------------------------------------------
C26DentroDoPedido(detalhe) ==
    detalhe.pedidoNormal >= 0 =>
        /\ 0 <= detalhe.valorAntecipado /\ detalhe.valorAntecipado <= detalhe.pedidoNormal
        /\ 0 <= detalhe.valorMantido /\ detalhe.valorMantido <= detalhe.pedidoNormal

C26ValorMantidoNoPedido ==
    cob.chamada = "calcularCoberturaPorData" =>
        \A k \in 1..Len(cob.retorno.detalheMeses) : C26DentroDoPedido(cob.retorno.detalheMeses[k])

\* what the code does keep: the two amounts add up to the normal order
C26Soma ==
    cob.chamada = "calcularCoberturaPorData" =>
        \A k \in 1..Len(cob.retorno.detalheMeses) :
            cob.retorno.detalheMeses[k].valorAntecipado + cob.retorno.detalheMeses[k].valorMantido
                = cob.retorno.detalheMeses[k].pedidoNormal

\* ------------------------------------------------------------------------
\* C27: for monthly totals that are not negative and week blocks of at least
\* one day each, no value returned by distribuirPedidoSimples,
\* distribuirPedidoPorSemanas or distribuirPedidoMultiMes is negative, the
\* one of the block that absorbs the remainder included.
\* ------------------------------------------------------------------------
C27EntradaValida ==
    /\ dist.pedidoMensal >= 0
    /\ \A mes \in DOMAIN dist.pedidoPorMes : dist.pedidoPorMes[mes].v >= 0
    /\ \A k \in 1..Len(dist.semanas) : dist.semanas[k].dias > 0

C27ValoresCalculados ==
    IF dist.funcao = "distribuirPedidoMultiMes" THEN ValoresDe(dist.valores) ELSE dist.valores

C27NuncaNegativo ==
    (dist.funcao \notin {"nenhuma", "entrada"} /\ C27EntradaValida) =>
        \A k \in 1..Len(C27ValoresCalculados) : C27ValoresCalculados[k] >= 0

\* ------------------------------------------------------------------------
\* C29: setting the override of one month to the PEDIDO the engine emits for
\* that month, with nothing else changed, leaves every field of every month
\* of the emitted series as it was.
\* ------------------------------------------------------------------------
\* the PEDIDO shown for a month of a SKU
C29PedidoEmitido(chave, mes) == LinhaDe(projecoesComEdicoes, chave).meses[mes].PEDIDO

\* the step sets the override of one cell, free until then, to the order shown
C29ConfirmaOSugerido(chave, mes) ==
    /\ dados.carregado
    /\ ~isCellEdited(chave, mes)
    /\ editedCells' = MapSet(editedCells, ChaveCelula(chave, mes), Inteiro(C29PedidoEmitido(chave, mes)))

C29SemEfeito ==
    [][\A chave \in ChavesSKU, mes \in Chaves(Horizonte) :
          C29ConfirmaOSugerido(chave, mes) => projecoesComEdicoes' = projecoesComEdicoes]_vars

\* ------------------------------------------------------------------------
\* C28: after any sequence of edits, undos and clear-all, the series shown
\* for each SKU is the one a fresh load followed by the overrides of the
\* current map gives, whatever the steps that led to the map; and a SKU
\* with no entry in the map shows the series it had when the bundle was
\* loaded, before any edit.
\* ------------------------------------------------------------------------
\* the cells of the map that belong to a SKU
C28CelulasDoSKU(chave) == { celula \in DOMAIN editedCells : \E mes \in Chaves(Horizonte) : celula = ChaveCelula(chave, mes) }

C28SoOMapa ==
    dados.carregado =>
        /\ projecoesComEdicoes = ProjecoesComEdicoes(obterProjecaoInicial(sampleData, hoje), editedCells)
        /\ \A k \in 1..Len(projecoesComEdicoes) :
              C28CelulasDoSKU(projecoesComEdicoes[k].CHAVE) = {} =>
                  projecoesComEdicoes[k] = obterProjecaoInicial(sampleData, hoje).projecao[k]

\* SKU A has no entry and shows the series of the load, while an override of
\* SKU B changed the series of SKU B
C28Witness ==
    /\ dados.carregado
    /\ C28CelulasDoSKU(<<"A">>) = {}
    /\ C28CelulasDoSKU(<<"B">>) # {}
    /\ projecoesComEdicoes[1] = dados.projecao[1]
    /\ projecoesComEdicoes[2] # dados.projecao[2]

\* ------------------------------------------------------------------------
\* C30: a request is created pending; once approved or rejected it never is
\* pending again, and through the approval page, whose cards offer the two
\* buttons only while the request is pending, the status of a decided
\* request never changes again.
\* ------------------------------------------------------------------------
\* the request that was sent k-th, before and after a step (new requests go
\* to the front of the list, and the page removes none)
C30Antes(k) == pedidos[Len(pedidos) - k + 1]
C30Depois(k) == pedidos'[Len(pedidos') - k + 1]

C30DecisaoFinal ==
    [][/\ Len(pedidos') >= Len(pedidos)
       /\ \A k \in 1..Len(pedidos) :
             C30Antes(k).status # "pendente" => C30Depois(k).status = C30Antes(k).status
       /\ \A k \in (Len(pedidos) + 1)..Len(pedidos') : C30Depois(k).status = "pendente"]_vars

\* what holds in every case: a request is created pending and a decided one
\* is never pending again
C30NuncaMaisPendente ==
    [][/\ Len(pedidos') >= Len(pedidos)
       /\ \A k \in 1..Len(pedidos) :
             C30Antes(k).status # "pendente" => C30Depois(k).status # "pendente"
       /\ \A k \in (Len(pedidos) + 1)..Len(pedidos') : C30Depois(k).status = "pendente"]_vars

\* and the decision of a request is final as long as no other request has its id
C30FinalComIdProprio ==
    [][\A k \in 1..Len(pedidos) :
          (/\ C30Antes(k).status # "pendente"
           /\ \A j \in 1..Len(pedidos) : j # k => C30Antes(j).id # C30Antes(k).id)
          => C30Depois(k).status = C30Antes(k).status]_vars
====
